---- MODULE Spec2Model ----
(***************************************************************************)
(* Model of the iphoneclaw control loop (Worker.run, agent/loop.py) and    *)
(* of the supervisor's control requests (supervisor/server.py).            *)
(*                                                                         *)
(* The loop thread is a program counter `pc` over the statements of        *)
(* Worker.run; one action per block of statements between two accesses of  *)
(* the shared control state.  Control requests (pause, resume, stop) are   *)
(* served on other threads and interleave with the loop at every           *)
(* such point.  Capture, decision source and actuator are external calls:  *)
(* their results are drawn from small sets.                                *)
(***************************************************************************)
EXTENDS Integers, Sequences, FiniteSets, TLC

\* ------------------------------------------------------------------ bounds
\* cfg.max_loop_count (config.py:26 sets 100 by default); small here.
max_loop_count == 4

\* --------------------------------------------------------- program constants
\* cfg.repeat_action_streak_threshold
repeat_action_streak_threshold == 4
\* parse_err_streak >= 3
PARSE_ERR_LIMIT == 3

\* StatusEnum
INIT == "init"
RUNNING == "running"
PAUSE == "pause"
HANG == "hang"
END == "end"
CALL_USER == "call_user"
USER_STOPPED == "user_stopped"
ERROR == "error"
StatusEnum == {INIT, RUNNING, PAUSE, HANG, END, CALL_USER, USER_STOPPED, ERROR}

\* TERMINAL_ACTIONS
TERMINAL_ACTIONS == {"finished", "call_user", "error_env"}

\* PredictionParsed, reduced to the two fields the loop reads.
Pred(t, r) == [action_type |-> t, raw_action |-> r]
TapA == Pred("click", "click(A)")
TapB == Pred("click", "click(B)")
Finished == Pred("finished", "finished()")
CallUser == Pred("call_user", "call_user()")
ErrorEnv == Pred("error_env", "???")
PredictionParsed == {TapA, TapB, Finished, CallUser, ErrorEnv}

\* sig = f"{pred.action_type}|{(pred.raw_action or '').strip()}"; the empty
\* tuple stands for the initial last_sig = "".
Sig(pred) == <<pred.action_type, pred.raw_action>>
NoSig == <<>>

\* What parse_predictions hands to the loop for one model reply: nothing, only
\* parse errors, one action, a repeated action, two different actions, a parse
\* error beside an action, and a terminal action alone or between two actions.
ModelOutputs ==
    {<<>>, <<ErrorEnv>>, <<TapA>>, <<TapA, TapA>>, <<TapA, TapB>>,
     <<ErrorEnv, TapA>>, <<Finished>>, <<CallUser>>,
     <<TapA, Finished, TapB>>, <<TapA, CallUser, TapB>>}

\* Screen digests (the capture's image reduced to its fingerprint).  The
\* device shows one screen; whether a replay is verified is drawn in
\* VerifyReplay.
Screens == {"s1"}
\* The digests of a device that shows two screens in turn.
TwoScreens == {"s1", "s2"}
NoShot == "none"
NoEntry == [fingerprint |-> NoShot, actions |-> <<>>, post |-> NoShot]

VARIABLES
    \* Config (fixed during a run)
    cfg,
    \* WorkerControl (pending: a guidance injection is queued; no request of
    \* Control queues one)
    status, paused, stopped, pending,
    \* ConversationStore._items
    conv,
    \* SupervisorHub: reason of the last published hang / error status
    reason,
    \* L0Router: digest -> entry
    l0cache,
    \* Worker.run locals
    pc, step, parse_err_streak, repeat_streak, last_sig,
    shot, pre_fp, l0_entry, l0_exec_ok, l0_exec_results, non_err, exec_results,
    \* Worker._sent_type_ascii_guidance
    sent_type_ascii_guidance,
    \* the input-activity observer (_on_act): "idle", or "checked" between
    \* its snapshot and its pause request
    mon,
    \* ConversationStore._lock (its holder), the threads calling the store,
    \* and the last completed call
    lock, thr, call,
    \* observation of the run
    obs

ctl == <<status, paused, stopped, pending>>
locals == <<pc, step, parse_err_streak, repeat_streak, last_sig,
            shot, pre_fp, l0_entry, l0_exec_ok, l0_exec_results, non_err,
            exec_results>>
vars == <<cfg, status, paused, stopped, pending, conv, reason, l0cache,
          pc, step, parse_err_streak, repeat_streak, last_sig,
          shot, pre_fp, l0_entry, l0_exec_ok, l0_exec_results, non_err,
          exec_results, sent_type_ascii_guidance, mon, lock, thr, call, obs>>
\* What the loop and the control requests of Spec leave alone.
aside == <<sent_type_ascii_guidance, mon, lock, thr, call>>

\* ConversationItem, reduced to its role and a tag for its text.
ConversationItem(role, text) == [role |-> role, text |-> text]

\* Config: the switches the loop reads.
Config == [hang_on_finished : BOOLEAN, hang_on_call_user : BOOLEAN,
           auto_pause_on_repeat_action : BOOLEAN, l0_enable : BOOLEAN,
           max_loop_count : {max_loop_count},
           repeat_action_streak_threshold : {repeat_action_streak_threshold}]

\* What the run has done so far, recorded for the properties below; the loop
\* never reads it.
ObsInit == [
    started |-> 0,            \* steps started (first capture of a step)
    startsAfterStop |-> 0,    \* steps started while stopped was already set
    stopAt |-> "none",        \* where the loop was when stop was requested
    gate |-> "none",          \* what the pause gate's last read of paused saw
    cut |-> "none",           \* why the live action loop of this step ended early
    errRun |-> 0,             \* consecutive most recent parse-error steps
    errExec |-> FALSE,        \* an action was executed in one of those steps
    l0 |-> "none",            \* cache outcome of the current step
    decided |-> 0,            \* decision calls in the current step
    appended |-> 0,           \* conversation appends in the current step
    hangedAtExec |-> TRUE,    \* the last executed action set HANG and paused
    hist |-> <<>>             \* the last HistWindow executed signatures
]

\* No store call has returned yet.
NoCall == [op |-> "none", arg |-> 0, before |-> <<>>, after |-> <<>>,
           ret |-> 0, out |-> <<>>]

\* The state Worker.__init__ leaves, whatever the configuration and the
\* conversation.
Fresh ==
    /\ status = INIT
    /\ paused = FALSE
    /\ stopped = FALSE
    /\ pending = FALSE
    /\ reason = ""
    /\ l0cache = [s \in TwoScreens |-> NoEntry]
    /\ pc = "launch"
    /\ step = 0
    /\ parse_err_streak = 0
    /\ repeat_streak = 0
    /\ last_sig = NoSig
    /\ shot = NoShot
    /\ pre_fp = NoShot
    /\ l0_entry = NoEntry
    /\ l0_exec_ok = TRUE
    /\ l0_exec_results = <<>>
    /\ non_err = <<>>
    /\ exec_results = <<>>
    /\ obs = ObsInit
    /\ sent_type_ascii_guidance = FALSE
    /\ mon = "idle"
    /\ lock = "free"
    /\ thr = <<>>
    /\ call = NoCall

Constructed ==
    /\ conv = <<>>
    /\ Fresh

Init ==
    /\ cfg \in Config
    /\ Constructed

\* ------------------------------------------------------------ WorkerControl
\* The lock-protected accessors of the control state; each is one critical
\* section.
set_status(s) == status' = s
pause == paused' = TRUE
resume == paused' = FALSE
stop == stopped' = TRUE
inject == pending' = TRUE

\* Returns the pending injection (here: whether there was one) and clears it.
pop_injected == pending' = FALSE

\* ----------------------------------------------------------------- L0Router
fingerprint(image) == image

try_cache(fp) == l0cache[fp]

\* verified: execution succeeded, the post digest matches and the reuse limit
\* (reuseLeft) is not exhausted.
verify_ok(entry, post_fp, success, reuseLeft) ==
    success /\ post_fp # NoShot /\ post_fp = entry.post /\ reuseLeft

\* verify_and_commit: the cache after the call (the entry is evicted unless
\* verified).
verify_and_commit(entry, verified) ==
    IF verified THEN l0cache
    ELSE [l0cache EXCEPT ![entry.fingerprint] = NoEntry]

should_cache_actions(actions) ==
    ~ (Len(actions) = 1 /\ actions[1].action_type \in TERMINAL_ACTIONS)

record(pre, actions, post) ==
    [l0cache EXCEPT ![pre] = [fingerprint |-> pre, actions |-> actions, post |-> post]]

\* ------------------------------------------------------------------ helpers
\* The last HistWindow executed signatures, oldest first.
HistWindow == repeat_action_streak_threshold + 1
HistAppend(h, x) == IF Len(h) >= HistWindow THEN Append(Tail(h), x) ELSE Append(h, x)

\* Variant: the replay bookkeeping never starts a new run.
ReplayStreak_NoReset(sig) == repeat_streak + 1

\* repeat_streak after a replayed action with signature sig
ReplayStreak(sig) == IF sig = last_sig THEN repeat_streak + 1 ELSE 1

\* repeat_streak after a live action with signature sig
LiveStreak(sig) == IF sig = last_sig THEN repeat_streak + 1 ELSE 1

\* non_err = [p for p in preds if p.action_type != "error_env"]
NonErr(preds) == SelectSeq(preds, LAMBDA p : p.action_type # "error_env")

\* The result of execute_action, reduced to the action and its ok flag.
Result(pred, ok) == [raw_action |-> pred.raw_action, ok |-> ok]

\* type actions: plain letters, Han characters, a letter with an accent.
TypePinyin == Pred("type", "type(content=nihao)")
TypeHan == Pred("type", "type(content=HAN)")
TypeAccent == Pred("type", "type(content=cafE)")

\* ai.content of a type action, as code points.
Content(pred) ==
    IF pred = TypePinyin THEN <<110, 105, 104, 97, 111>>
    ELSE IF pred = TypeHan THEN <<20320, 22909>>
    ELSE IF pred = TypeAccent THEN <<99, 97, 102, 233>>
    ELSE <<>>

\* str.isascii()
isascii(content) == \A i \in 1..Len(content) : content[i] < 128

\* cfg.type_ascii_only
type_ascii_only == TRUE

\* execute_action: the results it can return for pred (ok and the error
\* text). A type action with non-ASCII content raises before anything is
\* typed; any other action succeeds or fails in the actuator.
execute_action(pred) ==
    IF pred.action_type = "type" /\ type_ascii_only /\ ~isascii(Content(pred))
    THEN {[ok |-> FALSE, error |-> "ASCII only"]}
    ELSE {[ok |-> TRUE, error |-> ""], [ok |-> FALSE, error |-> "failed"]}

\* Variant: the recording block takes every result for a success.
AllOk_Any(results) == TRUE

\* all_ok = all(r.get("ok") for r in exec_results)
AllOk(results) == \A i \in 1..Len(results) : results[i].ok

\* `continue` / end of the loop body: back to the top of `while True`.  The
\* locals of the finished step are dead (each is assigned before its next
\* read), so they are cleared.
NextIteration ==
    /\ pc' = "top"
    /\ shot' = NoShot
    /\ pre_fp' = NoShot
    /\ l0_entry' = NoEntry
    /\ l0_exec_ok' = TRUE
    /\ l0_exec_results' = <<>>
    /\ non_err' = <<>>
    /\ exec_results' = <<>>

\* Variant: the thread stops where it is, without the run being over.
Return_Halts ==
    /\ pc' = "halt"
    /\ UNCHANGED <<shot, pre_fp, l0_entry, l0_exec_ok, l0_exec_results, non_err,
                   exec_results>>

\* Variant: a `return` that goes round the loop again.
Return_LoopsOn ==
    /\ pc' = "top"
    /\ UNCHANGED <<shot, pre_fp, l0_entry, l0_exec_ok, l0_exec_results, non_err,
                   exec_results>>

\* `return`: the run is over.
Return ==
    /\ pc' = "done"
    /\ UNCHANGED <<shot, pre_fp, l0_entry, l0_exec_ok, l0_exec_results, non_err,
                   exec_results>>

\* Variant: the handler swallows the exception and the loop goes on.
ExceptHandler_Swallows ==
    /\ status' = status
    /\ reason' = "exception"
    /\ NextIteration

\* except Exception as e: set_status(ERROR); ...; return
ExceptHandler ==
    /\ set_status(ERROR)
    /\ reason' = "exception"
    /\ Return

\* Observation: a new step starts (its first capture).
ObsStepStart ==
    [obs EXCEPT !.started = @ + 1,
                !.startsAfterStop = IF stopped THEN @ + 1 ELSE @,
                !.cut = "none", !.l0 = "none",
                !.decided = 0, !.appended = 0]

\* ---------------------------------------------------------- control requests
\* POST /v1/agent/pause
PostPause ==
    /\ pause
    /\ UNCHANGED <<cfg, status, stopped, pending, conv, reason, l0cache, locals, obs>>
    /\ UNCHANGED aside

\* POST /v1/agent/resume
PostResume ==
    /\ resume
    /\ obs' = [obs EXCEPT !.stopAt = IF @ = "gate" THEN "gate_resumed" ELSE @]
    /\ UNCHANGED <<cfg, status, stopped, pending, conv, reason, l0cache, locals>>
    /\ UNCHANGED aside

\* POST /v1/agent/stop
PostStop ==
    /\ stop
    /\ obs' = [obs EXCEPT !.stopAt =
                 IF stopped THEN @
                 ELSE IF pc = "tick" THEN "sleep"
                 ELSE IF pc = "gate" /\ obs.gate = "wait" /\ paused THEN "gate"
                 ELSE "other"]
    /\ UNCHANGED <<cfg, status, paused, pending, conv, reason, l0cache, locals>>
    /\ UNCHANGED aside

\* ------------------------------------------------------------ the loop thread
\* Variant: the top of the iteration does not look at stopped.
TopStops_Never(s) == FALSE

\* run(): set_status(RUNNING); launch_app (on an exception ERROR and return);
\* the system prompt and the instruction open the conversation.
Launch ==
    /\ pc = "launch"
    /\ \/ /\ set_status(RUNNING)
          /\ conv' = <<ConversationItem("system", "prompt"),
                      ConversationItem("user", "instruction")>>
          /\ pc' = "top"
          /\ UNCHANGED <<reason, shot, pre_fp, l0_entry, l0_exec_ok,
                         l0_exec_results, non_err, exec_results>>
       \/ /\ ExceptHandler
          /\ UNCHANGED conv
    /\ UNCHANGED <<cfg, paused, stopped, pending, l0cache, step, parse_err_streak,
                   repeat_streak, last_sig, obs>>
    /\ UNCHANGED aside

\* The stop check at the top of an iteration, reading stopped = s.
TopStops(s) == s

\* if self.control.snapshot()["stopped"]: USER_STOPPED, return
LoopTop ==
    /\ pc = "top"
    /\ IF TopStops(stopped)
       THEN /\ set_status(USER_STOPPED)
            /\ Return
       ELSE /\ pc' = "gate"
            /\ UNCHANGED <<status, shot, pre_fp, l0_entry, l0_exec_ok,
                           l0_exec_results, non_err, exec_results>>
    /\ UNCHANGED <<cfg, paused, stopped, pending, conv, reason, l0cache, step,
                   parse_err_streak, repeat_streak, last_sig, obs>>
    /\ UNCHANGED aside

\* Variant: the gate lets the loop through whatever it read.
GateTarget_Open(p) == "inject"

\* Where the pause gate goes after reading paused = p.
GateTarget(p) == IF p THEN "tick" ELSE "inject"

\* while self.control.snapshot()["paused"]:
PauseGate ==
    /\ pc = "gate"
    /\ pc' = GateTarget(paused)
    /\ obs' = [obs EXCEPT !.gate = IF paused THEN "wait" ELSE "pass"]
    /\ UNCHANGED <<cfg, ctl, conv, reason, l0cache, step, parse_err_streak,
                   repeat_streak, last_sig, shot, pre_fp, l0_entry,
                   l0_exec_ok, l0_exec_results, non_err, exec_results>>
    /\ UNCHANGED aside

\* time.sleep(0.2); if stopped: USER_STOPPED, return
PauseTick ==
    /\ pc = "tick"
    /\ IF stopped
       THEN /\ set_status(USER_STOPPED)
            /\ Return
            /\ obs' = [obs EXCEPT !.gate = "none"]
       ELSE /\ pc' = "gate"
            /\ UNCHANGED <<status, shot, pre_fp, l0_entry, l0_exec_ok,
                           l0_exec_results, non_err, exec_results, obs>>
    /\ UNCHANGED <<cfg, paused, stopped, pending, conv, reason, l0cache, step,
                   parse_err_streak, repeat_streak, last_sig>>
    /\ UNCHANGED aside

\* Variant: the ceiling check with >= in place of >.
OverCeiling_Early(n) == n >= cfg.max_loop_count

\* step > int(self.cfg.max_loop_count)
OverCeiling(n) == n > cfg.max_loop_count

\* Variant: the popped injection is appended twice.
Drained_Twice(injected, c) ==
    IF injected
    THEN Append(Append(c, ConversationItem("user", "guidance")),
                ConversationItem("user", "guidance"))
    ELSE c

\* if injected: self.conversation.add("user", "[Supervisor Guidance]..." )
Drained(injected, c) ==
    IF injected THEN Append(c, ConversationItem("user", "guidance")) ELSE c

\* step += 1
Counted(n) == n + 1

\* pop_injected and its append; step += 1 and the step ceiling
DrainAndCount ==
    /\ pc = "inject"
    /\ pop_injected
    /\ conv' = Drained(pending, conv)
    /\ step' = Counted(step)
    /\ IF OverCeiling(Counted(step))
       THEN /\ set_status(ERROR)
            /\ reason' = "max_loop_count"
            /\ Return
       ELSE /\ pc' = "capture"
            /\ UNCHANGED <<status, reason, shot, pre_fp, l0_entry, l0_exec_ok,
                           l0_exec_results, non_err, exec_results>>
    /\ obs' = [obs EXCEPT !.gate = "none"]
    /\ UNCHANGED <<cfg, paused, stopped, l0cache, parse_err_streak, repeat_streak,
                   last_sig>>
    /\ UNCHANGED aside

\* shot = self.cap.capture(); then the cache lookup
CaptureOk(s) ==
    /\ shot' = s
    /\ IF cfg.l0_enable
       THEN /\ pre_fp' = fingerprint(s)
            /\ l0_entry' = try_cache(fingerprint(s))
            /\ pc' = IF try_cache(fingerprint(s)) # NoEntry THEN "replay" ELSE "decide"
            /\ obs' = [ObsStepStart EXCEPT !.l0 =
                         IF try_cache(fingerprint(s)) # NoEntry THEN "hit" ELSE "miss"]
       ELSE /\ pre_fp' = NoShot
            /\ l0_entry' = NoEntry
            /\ pc' = "decide"
            /\ obs' = ObsStepStart
    /\ l0_exec_ok' = TRUE
    /\ l0_exec_results' = <<>>
    /\ UNCHANGED <<status, reason, non_err, exec_results>>

\* S: the digests the device may show
CaptureOf(S) ==
    /\ pc = "capture"
    /\ \/ \E s \in S : CaptureOk(s)
       \/ /\ ExceptHandler
          /\ obs' = ObsStepStart
    /\ UNCHANGED <<cfg, paused, stopped, pending, conv, l0cache, step,
                   parse_err_streak, repeat_streak, last_sig>>
    /\ UNCHANGED aside

Capture == CaptureOf(Screens)

\* Whether the replay loop goes on after the action at position i gave ok.
ReplayGoesOn(i, ok) == ok /\ i < Len(l0_entry.actions)

\* for pred in l0_entry.actions: one iteration
ReplayAction ==
    /\ pc = "replay"
    /\ LET i == Len(l0_exec_results) + 1
           pred == l0_entry.actions[i]
       IN IF pred.action_type \in TERMINAL_ACTIONS
          THEN /\ l0_exec_ok' = FALSE
               /\ pc' = "verify"
               /\ UNCHANGED <<l0_exec_results, repeat_streak,
                              last_sig, obs>>
          ELSE \E ok \in BOOLEAN :
               /\ l0_exec_results' = Append(l0_exec_results, Result(pred, ok))
               /\ repeat_streak' = ReplayStreak(Sig(pred))
               /\ last_sig' = Sig(pred)
               /\ l0_exec_ok' = ok
               /\ pc' = IF ReplayGoesOn(i, ok) THEN "replay" ELSE "verify"
               /\ obs' = [obs EXCEPT !.hangedAtExec = FALSE,
                                      !.hist = HistAppend(@, Sig(pred))]
    /\ UNCHANGED <<cfg, ctl, conv, reason, l0cache, step, parse_err_streak, shot,
                   pre_fp, l0_entry, non_err, exec_results>>
    /\ UNCHANGED aside

\* Variant: a verified replay falls through to the live cycle.
ReplayContinues_Never(verified) == FALSE

\* if verified: ...; continue
ReplayContinues(verified) == verified

\* After the replay loop: verify capture, verify_and_commit, and either the
\* verified `continue` or the fall-through to the live cycle.
\*   post: digest of the verify capture (NoShot: the capture raised)
\*   reuseLeft: the entry's reuse limit is not exhausted
\*   again: the fall-through's capture (NoShot: it raised, shot is kept)
\*   S: the digests the device may show
VerifyReplayOf(S) ==
    /\ pc = "verify"
    /\ \E post \in S \cup {NoShot}, reuseLeft \in BOOLEAN,
          again \in S \cup {NoShot} :
        LET verified == verify_ok(l0_entry, IF l0_exec_ok THEN post ELSE NoShot,
                                  l0_exec_ok, reuseLeft)
        IN /\ l0cache' = verify_and_commit(l0_entry, verified)
           /\ IF ReplayContinues(verified)
              THEN /\ set_status(RUNNING)
                   /\ NextIteration
                   /\ obs' = [obs EXCEPT !.l0 = "verified", !.errRun = 0]
              ELSE /\ shot' = IF again = NoShot THEN shot ELSE again
                   /\ pc' = "decide"
                   /\ obs' = [obs EXCEPT !.l0 = IF verified THEN "verified"
                                                ELSE "failed"]
                   /\ UNCHANGED <<status, pre_fp, l0_entry, l0_exec_ok,
                                  l0_exec_results, non_err, exec_results>>
    /\ UNCHANGED <<cfg, paused, stopped, pending, conv, reason, step,
                   parse_err_streak, repeat_streak, last_sig>>
    /\ UNCHANGED aside

VerifyReplay == VerifyReplayOf(Screens)

\* Variant: the parse-error check with > in place of >=.
ParseStreakHangs_Late(n) == n > PARSE_ERR_LIMIT

\* parse_err_streak >= 3
ParseStreakHangs(n) == n >= PARSE_ERR_LIMIT

\* invoke_model returned preds: assistant turn, parse-error check
DecideOk(preds) ==
    /\ conv' = Append(conv, ConversationItem("assistant", "reply"))
    /\ IF NonErr(preds) = <<>>
       THEN /\ parse_err_streak' = parse_err_streak + 1
            /\ IF ParseStreakHangs(parse_err_streak + 1)
               THEN /\ set_status(HANG)
                    /\ pause
                    /\ reason' = "parse_error_streak"
               ELSE UNCHANGED <<status, paused, reason>>
            /\ NextIteration
            /\ obs' = [obs EXCEPT !.decided = @ + 1, !.appended = @ + 1,
                                   !.errRun = @ + 1,
                                   !.errExec = (obs.errRun > 0 /\ @)
                                               \/ l0_exec_results # <<>>]
       ELSE /\ parse_err_streak' = 0
            /\ non_err' = NonErr(preds)
            /\ exec_results' = <<>>
            /\ pc' = "act"
            /\ obs' = [obs EXCEPT !.decided = @ + 1, !.appended = @ + 1,
                                   !.errRun = 0]
            /\ UNCHANGED <<status, paused, reason, shot, pre_fp, l0_entry,
                           l0_exec_ok, l0_exec_results>>

Decide ==
    /\ pc = "decide"
    /\ \/ \E preds \in ModelOutputs : DecideOk(preds)
       \/ /\ ExceptHandler
          /\ obs' = [obs EXCEPT !.decided = @ + 1]
          /\ UNCHANGED <<paused, conv, parse_err_streak>>
    /\ UNCHANGED <<cfg, stopped, pending, l0cache, step, repeat_streak, last_sig>>
    /\ UNCHANGED aside

\* Variant: the two switches exchanged.
HangOn_Swapped(t) ==
    IF t = "finished" THEN cfg.hang_on_call_user ELSE cfg.hang_on_finished

\* The configured switch of a terminal action type.
HangOn(t) == IF t = "finished" THEN cfg.hang_on_finished ELSE cfg.hang_on_call_user

\* finished / call_user at the head of the remaining list: HANG and break,
\* or the final status and return.
TerminalAction(pred) ==
    IF HangOn(pred.action_type)
    THEN /\ set_status(HANG)
         /\ pause
         /\ reason' = pred.action_type
         /\ pc' = "post"
         /\ obs' = [obs EXCEPT !.cut = "terminal"]
         /\ UNCHANGED <<shot, pre_fp, l0_entry, l0_exec_ok, l0_exec_results,
                        non_err, exec_results>>
    ELSE /\ set_status(IF pred.action_type = "finished" THEN END ELSE CALL_USER)
         /\ Return
         /\ obs' = [obs EXCEPT !.cut = "terminal"]
         /\ UNCHANGED <<paused, reason>>

\* The repeat-action guard after a live action left the streak at n.
RepeatHangs(n, pred) ==
    /\ cfg.auto_pause_on_repeat_action
    /\ n >= cfg.repeat_action_streak_threshold
    /\ pred.action_type \notin {"finished", "call_user"}

\* Variant: the live loop leaves the list as soon as paused is set.
LiveGoesOn_UntilPaused(i, ok) == i < Len(non_err) /\ ~paused

\* Whether the live loop goes on to the next action after position i gave ok.
LiveGoesOn(i, ok) == i < Len(non_err)

\* Variant: the guidance is due at every rejection.
GuidanceDue_EveryTime(pred, ok, err, sent) ==
    ~ok /\ pred.action_type = "type" /\ err = "ASCII only"

\* if not res.get("ok"): ... if pred.action_type == "type" and
\* ("ASCII only" in err) and (not self._sent_type_ascii_guidance)
GuidanceDue(pred, ok, err, sent) ==
    ~ok /\ pred.action_type = "type" /\ err = "ASCII only" /\ ~sent

\* execute_action gave ok (and the error text err) for the live action at
\* position i
ExecuteLive(i, pred, ok, err) ==
    /\ exec_results' = Append(exec_results, Result(pred, ok))
    /\ repeat_streak' = LiveStreak(Sig(pred))
    /\ last_sig' = Sig(pred)
    /\ IF RepeatHangs(LiveStreak(Sig(pred)), pred)
       THEN /\ set_status(HANG)
            /\ pause
            /\ reason' = "repeat_action_streak"
            /\ pc' = "post"
            /\ obs' = [obs EXCEPT !.cut = "repeat", !.hangedAtExec = TRUE,
                                   !.hist = HistAppend(@, Sig(pred))]
            /\ UNCHANGED <<conv, sent_type_ascii_guidance>>
       ELSE /\ pc' = IF LiveGoesOn(i, ok) THEN "act" ELSE "post"
            /\ IF GuidanceDue(pred, ok, err, sent_type_ascii_guidance)
               THEN /\ sent_type_ascii_guidance' = TRUE
                    /\ conv' = Append(conv, ConversationItem("user", "constraint"))
                    /\ obs' = [obs EXCEPT !.hangedAtExec = FALSE,
                                           !.hist = HistAppend(@, Sig(pred)),
                                           !.appended = @ + 1]
               ELSE /\ UNCHANGED <<conv, sent_type_ascii_guidance>>
                    /\ obs' = [obs EXCEPT !.hangedAtExec = FALSE,
                                           !.hist = HistAppend(@, Sig(pred))]
            /\ UNCHANGED <<status, paused, reason>>
    /\ UNCHANGED <<shot, pre_fp, l0_entry, l0_exec_ok, l0_exec_results, non_err>>

\* for pred in non_err: one iteration
LiveAction ==
    /\ pc = "act"
    /\ LET i == Len(exec_results) + 1
           pred == non_err[i]
       IN IF pred.action_type \in {"finished", "call_user"}
          THEN /\ TerminalAction(pred)
               /\ UNCHANGED <<repeat_streak, last_sig, conv, sent_type_ascii_guidance>>
          ELSE \E res \in execute_action(pred) : ExecuteLive(i, pred, res.ok, res.error)
    /\ UNCHANGED <<cfg, stopped, pending, l0cache, step, parse_err_streak>>
    /\ UNCHANGED <<mon, lock, thr, call>>

\* if paused or status == HANG: continue   (the read; the writes follow)
SkipsReset(p, st) == p \/ st = HANG

PostStep ==
    /\ pc = "post"
    /\ IF SkipsReset(paused, status)
       THEN NextIteration
       ELSE /\ pc' = "record"
            /\ UNCHANGED <<shot, pre_fp, l0_entry, l0_exec_ok, l0_exec_results,
                           non_err, exec_results>>
    /\ UNCHANGED <<cfg, ctl, conv, reason, l0cache, step, parse_err_streak,
                   repeat_streak, last_sig, obs>>
    /\ UNCHANGED aside

\* The cache after the recording block of a live step; post is the digest of
\* the post capture (NoShot: the capture raised and nothing is recorded).
RecordedCache(post) ==
    IF /\ cfg.l0_enable
       /\ pre_fp # NoShot
       /\ exec_results # <<>>
       /\ AllOk(exec_results)
       /\ should_cache_actions(non_err)
       /\ post # NoShot
    THEN record(pre_fp, non_err, fingerprint(post))
    ELSE l0cache

\* Persist the results (an exception of the recorder goes to the handler),
\* record in the cache, set_status(RUNNING), inter-step delay
\* (S: the digests the device may show)
RecordStepOf(S) ==
    /\ pc = "record"
    /\ \/ /\ \E post \in S \cup {NoShot} : l0cache' = RecordedCache(post)
          /\ set_status(RUNNING)
          /\ NextIteration
          /\ UNCHANGED reason
       \/ /\ ExceptHandler
          /\ UNCHANGED l0cache
    /\ UNCHANGED <<cfg, paused, stopped, pending, conv, step,
                   parse_err_streak, repeat_streak, last_sig, obs>>
    /\ UNCHANGED aside

RecordStep == RecordStepOf(Screens)

Loop ==
    \/ Launch
    \/ LoopTop
    \/ PauseGate
    \/ PauseTick
    \/ DrainAndCount
    \/ Capture
    \/ ReplayAction
    \/ VerifyReplay
    \/ Decide
    \/ LiveAction
    \/ PostStep
    \/ RecordStep

Control ==
    \/ PostPause
    \/ PostResume
    \/ PostStop

Next == Loop \/ Control

Spec == Init /\ [][Next]_vars

\* ---------------------------------------------------------------- short runs
\* Runs of at most SHORT_RUN steps, for the specifications that add a thread
\* to the loop and the control requests.
SHORT_RUN == 2

ShortConfig == [hang_on_finished : BOOLEAN, hang_on_call_user : BOOLEAN,
                auto_pause_on_repeat_action : BOOLEAN, l0_enable : BOOLEAN,
                max_loop_count : {SHORT_RUN},
                repeat_action_streak_threshold : {repeat_action_streak_threshold}]

InitShort ==
    /\ cfg \in ShortConfig
    /\ Constructed

\* ------------------------------------------------------------ fair runs
\* A pause that is in force is answered: the operator resumes or stops.
Responds ==
    /\ paused
    /\ ~ stopped
    /\ (PostResume \/ PostStop)

\* The loop thread is scheduled whenever it can take a step (every capture,
\* decision and execution call returns), and every pause is eventually
\* followed by a resume or a stop.
SpecFair ==
    /\ InitShort
    /\ [][Next]_vars
    /\ WF_vars(Loop)
    /\ WF_vars(Responds)

\* ------------------------------------------------------- guidance injection
\* POST /v1/agent/inject with a non-empty text. Its optional pause and resume
\* flags are further critical sections, the ones of PostPause and PostResume.
PostInject ==
    /\ inject
    /\ UNCHANGED <<cfg, status, paused, stopped, conv, reason, l0cache, locals, obs>>
    /\ UNCHANGED aside

NextInject == Loop \/ Control \/ PostInject

\* The hang and repeat-guard switches at their defaults, the cache on or off.
DefaultSwitches(c) ==
    c.hang_on_finished /\ c.hang_on_call_user /\ c.auto_pause_on_repeat_action

InitInject ==
    /\ cfg \in {c \in ShortConfig : DefaultSwitches(c)}
    /\ Constructed

SpecInject == InitInject /\ [][NextInject]_vars

\* ------------------------------------------------------------- type actions
\* Model replies made of type actions: one or two rejected, an accepted one,
\* the same rejected action twice, a rejected one followed by a click.
TypedOutputs ==
    {<<TypeHan>>, <<TypeAccent>>, <<TypePinyin>>, <<TypeHan, TypeAccent>>,
     <<TypeHan, TypeHan>>, <<TypeAccent, TapA>>}

\* The decision call answering with type actions.
DecideTyped ==
    /\ pc = "decide"
    /\ \E preds \in TypedOutputs : DecideOk(preds)
    /\ UNCHANGED <<cfg, stopped, pending, l0cache, step, repeat_streak, last_sig>>
    /\ UNCHANGED aside

\* The cache off; the repeat guard at its default threshold or at 1, where it
\* trips at every executed action.
TypeConfig ==
    [hang_on_finished : {TRUE}, hang_on_call_user : {TRUE},
     auto_pause_on_repeat_action : BOOLEAN, l0_enable : {FALSE},
     max_loop_count : {SHORT_RUN},
     repeat_action_streak_threshold : {1, repeat_action_streak_threshold}]

InitType ==
    /\ cfg \in TypeConfig
    /\ Constructed

NextType ==
    \/ Launch
    \/ LoopTop
    \/ PauseGate
    \/ PauseTick
    \/ DrainAndCount
    \/ Capture
    \/ DecideTyped
    \/ LiveAction
    \/ PostStep
    \/ RecordStep
    \/ Control

SpecType == InitType /\ [][NextType]_vars

\* ------------------------------------------------------- ConversationStore
\* Logs of up to MaxLen items.
MaxLen == 4

Roles == {"system", "user", "assistant"}

\* The text of the item at position i of a starting log; every item of a log
\* has its own.
ItemText(i) ==
    <<"m1", "m2", "m3", "m4", "m5", "m6", "m7", "m8", "m9", "m10", "m11", "m12">>[i]

Logs ==
    UNION {{[i \in 1..k |-> ConversationItem(r[i], ItemText(i))] :
                r \in [1..k -> Roles]} : k \in 0..MaxLen}

\* del items[i], with i counted from 1
Del(items, i) == SubSeq(items, 1, i - 1) \o SubSeq(items, i + 1, Len(items))

\* Variant: the walk goes on for one assistant item more.
TrimGoesOn_OneMore(i, dropped, n) == i >= 1 /\ dropped <= n

\* while i >= 0 and assistant_dropped < n   (i counted from 1 here)
TrimGoesOn(i, dropped, n) == i >= 1 /\ dropped < n

\* Variant: the user item before a dropped assistant item always stays.
HasUserBefore_Never(items, i) == FALSE

\* if i - 1 >= 0 and self._items[i - 1].role == "user", read after the
\* assistant item at i was deleted
HasUserBefore(items, i) == i - 1 >= 1 /\ items[i - 1].role = "user"

\* One pass of the body of the while loop of trim_tail_rounds at position i:
\* the list, the position and the count it leaves.
TrimStep(items, i, dropped) ==
    IF items[i].role = "assistant"
    THEN LET a == Del(items, i)
         IN IF HasUserBefore(a, i)
            THEN [items |-> Del(a, i - 1), i |-> i - 2, dropped |-> dropped + 1]
            ELSE [items |-> a, i |-> i - 1, dropped |-> dropped + 1]
    ELSE [items |-> items, i |-> i - 1, dropped |-> dropped]

\* The backward walk of trim_tail_rounds from position i.
RECURSIVE TrimWalk(_, _, _, _)
TrimWalk(items, i, dropped, n) ==
    IF TrimGoesOn(i, dropped, n)
    THEN LET st == TrimStep(items, i, dropped)
         IN TrimWalk(st.items, st.i, st.dropped, n)
    ELSE items

\* ConversationStore.trim_tail_rounds: the log it leaves and what it returns.
trim_tail_rounds(items, drop_rounds) ==
    IF drop_rounds <= 0 \/ Len(items) = 0
    THEN [items |-> items, ret |-> 0]
    ELSE LET after == TrimWalk(items, Len(items), 0, drop_rounds)
         IN [items |-> after, ret |-> Len(items) - Len(after)]

\* Variant: the first system item in place of the last.
LastSystem_First(items) ==
    IF \E i \in 1..Len(items) : items[i].role = "system"
    THEN CHOOSE i \in 1..Len(items) :
            /\ items[i].role = "system"
            /\ \A j \in 1..(i - 1) : items[j].role # "system"
    ELSE 0

\* for it in reversed(self._items): if it.role == "system": last_sys = it
\* (its position, 0 for None)
RECURSIVE LastSystemFrom(_, _)
LastSystemFrom(items, i) ==
    IF i < 1 THEN 0
    ELSE IF items[i].role = "system" THEN i
    ELSE LastSystemFrom(items, i - 1)

LastSystem(items) == LastSystemFrom(items, Len(items))

\* ConversationStore.clear: the log it leaves and what it returns.
clear(items, keep_last_system) ==
    IF Len(items) = 0 THEN [items |-> items, ret |-> 0]
    ELSE IF ~keep_last_system THEN [items |-> <<>>, ret |-> Len(items)]
    ELSE LET after == IF LastSystem(items) # 0
                      THEN <<items[LastSystem(items)]>> ELSE <<>>
         IN [items |-> after, ret |-> Len(items) - Len(after)]

\* The backward scan of _tail_items_by_rounds from position i: start_idx as
\* Python counts it (from 0).
RECURSIVE TailStart(_, _, _, _)
TailStart(items, i, assistant_seen, tail_rounds) ==
    IF i < 1 THEN 0
    ELSE IF items[i].role = "assistant"
         THEN IF assistant_seen + 1 >= tail_rounds
              THEN i - 1
              ELSE TailStart(items, i - 1, assistant_seen + 1, tail_rounds)
         ELSE TailStart(items, i - 1, assistant_seen, tail_rounds)

\* ConversationStore._tail_items_by_rounds on a copy of the log
tail_items_by_rounds(items, tail_rounds) ==
    LET s0 == TailStart(items, Len(items), 0, tail_rounds)
        start_idx == IF s0 > 0 /\ items[s0 + 1].role = "assistant"
                        /\ items[s0].role = "user"
                     THEN s0 - 1 ELSE s0
    IN SubSeq(items, start_idx + 1, Len(items))

\* What the store calls leave alone.
outside == <<cfg, ctl, reason, l0cache, locals, obs, sent_type_ascii_guidance, mon>>
beside == <<outside, lock, thr>>

\* int(body.get("dropRounds") or body.get("tailRounds") or 1): never 0
DropRounds == ((0 - 1)..(MaxLen + 1)) \ {0}

\* POST /v1/agent/context/clear, mode tail: trim_tail_rounds(dropRounds)
PostContextTrim ==
    /\ \E n \in DropRounds :
         LET r == trim_tail_rounds(conv, n)
         IN /\ conv' = r.items
            /\ call' = [op |-> "trim", arg |-> n, before |-> conv,
                        after |-> r.items, ret |-> r.ret, out |-> <<>>]
    /\ UNCHANGED beside

\* POST /v1/agent/context/clear, mode all: clear(keep_last_system)
PostContextClear ==
    /\ \E keep \in BOOLEAN :
         LET r == clear(conv, keep)
         IN /\ conv' = r.items
            /\ call' = [op |-> "clear", arg |-> IF keep THEN 1 ELSE 0,
                        before |-> conv, after |-> r.items, ret |-> r.ret,
                        out |-> <<>>]
    /\ UNCHANGED beside

\* GET /v1/agent/context?tailRounds=n: tail_rounds(n)
GetContext ==
    /\ \E n \in 0..(MaxLen + 1) :
         call' = [op |-> "window", arg |-> n, before |-> conv, after |-> conv,
                  ret |-> 0, out |-> tail_items_by_rounds(conv, n)]
    /\ UNCHANGED conv
    /\ UNCHANGED beside

InitStore ==
    /\ cfg \in {c \in ShortConfig : DefaultSwitches(c) /\ c.l0_enable}
    /\ conv \in Logs
    /\ Fresh

NextStore == PostContextTrim \/ PostContextClear \/ GetContext

SpecStore == InitStore /\ [][NextStore]_vars

\* ------------------------------------------------ the messages of a decision
\* tail_rounds=8 of the loop's to_openai_messages call
TAIL_ROUNDS == 8

\* Runs of up to WINDOW_RUN steps, long enough for more assistant turns than
\* the window holds.
WINDOW_RUN == 10

WindowConfig ==
    [hang_on_finished : {TRUE}, hang_on_call_user : {TRUE},
     auto_pause_on_repeat_action : {TRUE}, l0_enable : {FALSE},
     max_loop_count : {WINDOW_RUN},
     repeat_action_streak_threshold : {repeat_action_streak_threshold}]

\* {"role": it.role, "content": it.text}
Message(it) == [role |-> it.role, content |-> it.text]

\* ConversationStore.to_openai_messages
to_openai_messages(items, include_system, tail_rounds) ==
    LET kept == SelectSeq(tail_items_by_rounds(items, tail_rounds),
                          LAMBDA it : ~ (it.role = "system" /\ ~include_system))
    IN [i \in 1..Len(kept) |-> Message(kept[i])]

\* Build messages: the system prompt, the tail of the conversation, the
\* screenshot.
BuildMessages(items) ==
    <<[role |-> "system", content |-> "prompt"]>>
      \o to_openai_messages(items, FALSE, TAIL_ROUNDS)
      \o <<[role |-> "user", content |-> "screen"]>>

\* The replies of the long runs: an action or a parse error.
WindowOutputs == {<<TapA>>, <<TapB>>, <<ErrorEnv>>}

\* The decision call, with the messages it was sent.
DecideWindowed ==
    /\ pc = "decide"
    /\ call' = [op |-> "invoke_model", arg |-> step, before |-> conv,
                after |-> <<>>, ret |-> 0, out |-> BuildMessages(conv)]
    /\ \/ \E preds \in WindowOutputs : DecideOk(preds)
       \/ /\ ExceptHandler
          /\ obs' = [obs EXCEPT !.decided = @ + 1]
          /\ UNCHANGED <<paused, conv, parse_err_streak>>
    /\ UNCHANGED <<cfg, stopped, pending, l0cache, step, repeat_streak, last_sig>>
    /\ UNCHANGED <<sent_type_ascii_guidance, mon, lock, thr>>

InitWindow ==
    /\ cfg \in WindowConfig
    /\ Constructed

NextWindow ==
    \/ Launch
    \/ LoopTop
    \/ PauseGate
    \/ PauseTick
    \/ DrainAndCount
    \/ Capture
    \/ DecideWindowed
    \/ LiveAction
    \/ PostStep
    \/ RecordStep
    \/ PostResume

SpecWindow == InitWindow /\ [][NextWindow]_vars

\* ------------------------------------------ POST /v1/agent/context/clear
\* The request with all the fields of its body: pause, mode (a missing mode
\* reads as "all"; "bogus" stands for every string outside the two groups),
\* keep_last_system, dropRounds, resume.
ClearBodies ==
    [pause : BOOLEAN, mode : {"all", "tail", "bogus"}, keep_last_system : BOOLEAN,
     dropRounds : {1, 2}, resume : BOOLEAN]

\* What the request leaves of the log, and the HTTP status of its answer.
ClearOutcome(body) ==
    IF body.mode = "all"
    THEN [items |-> clear(conv, body.keep_last_system).items, code |-> 200]
    ELSE IF body.mode = "tail"
    THEN [items |-> trim_tail_rounds(conv, body.dropRounds).items, code |-> 200]
    ELSE [items |-> conv, code |-> 400]

\* The handler: pause if asked, then the mode (an invalid one answers 400
\* and returns), then resume if asked.  One request is followed per run.
ContextClearRequest(body) ==
    /\ conv' = ClearOutcome(body).items
    /\ paused' = IF ClearOutcome(body).code = 200 /\ body.resume THEN FALSE
                 ELSE IF body.pause THEN TRUE
                 ELSE paused
    /\ call' = [op |-> "context_clear", arg |-> body,
                before |-> <<paused, stopped, status, pending, conv>>,
                after |-> <<paused', stopped, status, pending, conv'>>,
                ret |-> ClearOutcome(body).code, out |-> <<>>]

PostContextClearBody ==
    /\ call = NoCall
    /\ \E body \in ClearBodies : ContextClearRequest(body)
    /\ UNCHANGED <<cfg, status, stopped, pending, reason, l0cache, locals, obs,
                   sent_type_ascii_guidance, mon, lock, thr>>

NextContext == PostContextClearBody \/ PostPause \/ PostResume \/ PostStop \/ PostInject

SpecContext == InitStore /\ [][NextContext]_vars

\* ---------------------------------------------- ConversationStore: the lock
\* thr holds the store calls made so far, each by its own thread: the loop
\* thread makes its calls one after the other, every control request is
\* served by a thread of its own.
MaxOps == 3

\* The log with the roles rs, in the texts of a starting log.
LogOf(rs) == [i \in 1..Len(rs) |-> ConversationItem(rs[i], ItemText(i))]

\* The starting logs of the concurrent runs: two rounds without user items,
\* one round with its user item, a prompt and an instruction.
LockLogs ==
    {LogOf(<<"assistant", "assistant">>), LogOf(<<"user", "assistant">>),
     LogOf(<<"system", "user">>)}

\* Variant: the lock is taken whoever holds it.
LockFree_Always(l) == TRUE

\* with self._lock: the acquisition succeeds when nobody holds the lock.
LockFree(l) == l = "free"

\* The name under which the thread of call k holds the lock.
ThreadName(k) == <<"t1", "t2", "t3", "t4", "t5", "t6">>[k]

StoreCall(who, op, arg, item) ==
    [who |-> who, op |-> op, arg |-> arg, item |-> item, pc |-> "want",
     seen |-> <<>>, local |-> <<>>, i |-> 0, dropped |-> 0, ret |-> 0]

\* The items add has been called with so far.
AddCalls == Cardinality({k \in 1..Len(thr) : thr[k].op = "add"})

\* The loop thread calls add (loop.py:134-137, 168, 344, 485) once its
\* previous call has returned.
LoopAdds ==
    /\ Len(thr) < MaxOps
    /\ \A k \in 1..Len(thr) : thr[k].who = "loop" => thr[k].pc = "done"
    /\ \E role \in {"user", "assistant"} :
         thr' = Append(thr, StoreCall("loop", "add", 0,
                    ConversationItem(role, ItemText(MaxLen + 1 + AddCalls))))
    /\ UNCHANGED <<conv, call, lock, outside>>

\* A control request arrives and its thread calls tail_rounds, clear or
\* trim_tail_rounds.
Request ==
    /\ Len(thr) < MaxOps
    /\ \E c \in {StoreCall("request", "window", 1, NoCall),
                  StoreCall("request", "clear", 1, NoCall),
                  StoreCall("request", "trim", 2, NoCall)} :
         thr' = Append(thr, c)
    /\ UNCHANGED <<conv, call, lock, outside>>

\* with self._lock: entered by call k; before = len(self._items),
\* i = len(self._items) - 1 are read first.
Acquire(k) ==
    /\ k \in 1..Len(thr)
    /\ thr[k].pc = "want"
    /\ LockFree(lock)
    /\ lock' = ThreadName(k)
    /\ thr' = [thr EXCEPT ![k].pc = "in", ![k].seen = conv,
                          ![k].i = Len(conv), ![k].dropped = 0]
    /\ UNCHANGED <<conv, call, outside>>

\* One step of call k inside its critical section: the append, the copy,
\* the clear, or one pass of the loop of trim_tail_rounds.
Body(k) ==
    /\ k \in 1..Len(thr)
    /\ thr[k].pc = "in"
    /\ LET c == thr[k]
       IN CASE c.op = "add" ->
                 /\ conv' = Append(conv, c.item)
                 /\ thr' = [thr EXCEPT ![k].pc = "out"]
            [] c.op = "window" ->
                 /\ thr' = [thr EXCEPT ![k].pc = "out", ![k].local = conv]
                 /\ UNCHANGED conv
            [] c.op = "clear" ->
                 /\ conv' = clear(conv, c.arg = 1).items
                 /\ thr' = [thr EXCEPT ![k].pc = "out",
                                       ![k].ret = clear(conv, c.arg = 1).ret]
            [] c.op = "trim" ->
                 IF Len(c.seen) # 0 /\ c.i <= Len(conv)
                    /\ TrimGoesOn(c.i, c.dropped, c.arg)
                 THEN LET st == TrimStep(conv, c.i, c.dropped)
                      IN /\ conv' = st.items
                         /\ thr' = [thr EXCEPT ![k].i = st.i,
                                               ![k].dropped = st.dropped]
                 ELSE /\ thr' = [thr EXCEPT ![k].pc = "out",
                                            ![k].ret = Len(c.seen) - Len(conv)]
                      /\ UNCHANGED conv
    /\ UNCHANGED <<call, lock, outside>>

\* The end of the with block of call k, and its return; the window is cut
\* from the copy after the lock is released.
Release(k) ==
    /\ k \in 1..Len(thr)
    /\ thr[k].pc = "out"
    /\ lock' = "free"
    /\ thr' = [thr EXCEPT ![k] = [StoreCall(@.who, @.op, @.arg, @.item)
                                     EXCEPT !.pc = "done"]]
    /\ call' = [op |-> thr[k].op, arg |-> thr[k].arg, before |-> thr[k].seen,
                after |-> conv, ret |-> thr[k].ret,
                out |-> IF thr[k].op = "window"
                        THEN tail_items_by_rounds(thr[k].local, thr[k].arg)
                        ELSE <<>>]
    /\ UNCHANGED <<conv, outside>>

StoreThread(k) == Acquire(k) \/ Body(k) \/ Release(k)

InitStoreLock ==
    /\ cfg \in {c \in ShortConfig : DefaultSwitches(c) /\ c.l0_enable}
    /\ conv \in LockLogs
    /\ Fresh

NextStoreLock ==
    \/ LoopAdds
    \/ Request
    \/ \E k \in 1..MaxOps : StoreThread(k)

\* Every thread that can take a step is scheduled.
SpecStoreLock ==
    /\ InitStoreLock
    /\ [][NextStoreLock]_vars
    /\ \A k \in 1..MaxOps : WF_vars(StoreThread(k))

\* ------------------------------------------------ the input-activity observer
\* _on_act, first critical section: snap = self.control.snapshot(); the
\* callback returns unless snap shows RUNNING with neither paused nor stopped.
\* The monitor delivers activity from its start until the run's monitor.stop().
ObserverCheck ==
    /\ mon = "idle"
    /\ pc # "done"
    /\ status = RUNNING /\ ~paused /\ ~stopped
    /\ mon' = "checked"
    /\ UNCHANGED <<cfg, ctl, conv, reason, l0cache, locals, obs,
                   sent_type_ascii_guidance, lock, thr, call>>

\* _on_act, second critical section: self.control.pause(), whatever the
\* control state has become since the snapshot.
ObserverPause ==
    /\ mon = "checked"
    /\ pc # "done"
    /\ pause
    /\ mon' = "idle"
    /\ UNCHANGED <<cfg, status, stopped, pending, conv, reason, l0cache, locals,
                   obs, sent_type_ascii_guidance, lock, thr, call>>

Observer == ObserverCheck \/ ObserverPause

NextObserver == Loop \/ Control \/ Observer

SpecObserver == InitShort /\ [][NextObserver]_vars

\* ------------------------------------------------------------- two screens
\* Runs of at most LONG_RUN steps on a device that shows two screens, with the
\* cache enabled and the other switches off, without a stop request.
LONG_RUN == 5

LongConfig == [hang_on_finished : {FALSE}, hang_on_call_user : {FALSE},
               auto_pause_on_repeat_action : {FALSE}, l0_enable : {TRUE},
               max_loop_count : {LONG_RUN},
               repeat_action_streak_threshold : {repeat_action_streak_threshold}]

InitScreens ==
    /\ cfg \in LongConfig
    /\ Constructed

CaptureTwo == CaptureOf(TwoScreens)

VerifyReplayTwo == VerifyReplayOf(TwoScreens)

RecordStepTwo == RecordStepOf(TwoScreens)

NextScreens ==
    \/ Launch
    \/ LoopTop
    \/ PauseGate
    \/ PauseTick
    \/ DrainAndCount
    \/ CaptureTwo
    \/ ReplayAction
    \/ VerifyReplayTwo
    \/ Decide
    \/ LiveAction
    \/ PostStep
    \/ RecordStepTwo
    \/ PostResume

SpecScreens == InitScreens /\ [][NextScreens]_vars

\* --------------------------------------------------------------------- text
\* A text is a sequence of lexemes.  A lexeme is one character the splitters
\* and parsers react to (space, newline, the two quotes, backslash,
\* parentheses, `;`, `,`, `=`, `.`), the marker `Action:`, a template
\* reference, or a word: a maximal run of \w characters, kept whole.  Two
\* adjacent word lexemes read as one longer word.
SP == " "
NL == "NL"
DQ == "DQ"
SQ == "SQ"
BS == "BS"
LP == "("
RP == ")"
SEMI == ";"
COMMA == ","
EQ == "="
DOT == "."
HASH == "#"
\* _ACTION_SPLIT_RE = re.compile(r"Action[:：]")
ACTION_MARK == "Action:"
\* The template references ${APP}, ${B} (matched by _TEMPLATE_RE) and ${app}
\* (not matched: lower case).
TPL_APP == "${APP}"
TPL_B == "${B}"
TPL_app == "${app}"

Specials == {SP, NL, DQ, SQ, BS, LP, RP, SEMI, COMMA, EQ, DOT, HASH, ACTION_MARK,
             TPL_APP, TPL_B, TPL_app}

\* \w
IsWord(c) == c \notin Specials
\* str.strip() and \s
IsSpace(c) == c \in {SP, NL}
\* The words that are decimal numbers, and their values.
Numerals == {"0", "2", "3", "50"}
IntOf(w) == CASE w = "0" -> 0 [] w = "2" -> 2 [] w = "3" -> 3 [] w = "50" -> 50

RECURSIVE lstrip(_)
lstrip(s) == IF s # <<>> /\ IsSpace(Head(s)) THEN lstrip(Tail(s)) ELSE s

RECURSIVE rstrip(_)
rstrip(s) ==
    IF s # <<>> /\ IsSpace(s[Len(s)]) THEN rstrip(SubSeq(s, 1, Len(s) - 1)) ELSE s

strip(s) == rstrip(lstrip(s))

\* s[i:] of Python, for a 0-based i
From(s, i) == SubSeq(s, i + 1, Len(s))

\* Length of the run of word lexemes that starts s.
RECURSIVE WordLen(_)
WordLen(s) == IF s # <<>> /\ IsWord(Head(s)) THEN 1 + WordLen(Tail(s)) ELSE 0

\* re.fullmatch(r"\w+", s)
WordRun(s) == s # <<>> /\ WordLen(s) = Len(s)

\* ------------------------------------------------------------ Action Parser
\* PredictionParsed of the parser: the action type (a word run), the raw
\* text of the statement, and the diagnostic of an error_env action
\* (action_inputs.content; "" for the other actions, whose inputs are left
\* out).
ParsedAction(t, raw, diag) == [action_type |-> t, raw_action |-> raw, diag |-> diag]
ERROR_ENV == <<"error_env">>

\* _extract_thought_reflection_action: the action section (thought and
\* reflection are left out).
ActionStr(text) ==
    LET t == strip(text)
        marks == {i \in 1..Len(t) : t[i] = ACTION_MARK}
    IN IF marks = {} THEN t
       ELSE LET last == CHOOSE i \in marks : \A j \in marks : j <= i
            IN strip(From(t, last))

\* flush() of the two splitters
Flush(buf, out) == IF strip(buf) # <<>> THEN Append(out, strip(buf)) ELSE out

NoQuote == "none"

\* The character loop shared by _split_actions and _split_top_level, from
\* position i of s to the first separator of seps outside quotes and
\* parentheses: the position of that separator, Len(s) + 1 if there is none.
RECURSIVE SplitEnd(_, _, _, _, _)
SplitEnd(s, i, seps, quote, depth) ==
    IF i > Len(s) THEN i
    ELSE IF quote # NoQuote
    THEN SplitEnd(s, i + 1, seps, IF s[i] = quote THEN NoQuote ELSE quote, depth)
    ELSE IF s[i] \in {SQ, DQ} THEN SplitEnd(s, i + 1, seps, s[i], depth)
    ELSE IF s[i] = LP THEN SplitEnd(s, i + 1, seps, quote, depth + 1)
    ELSE IF s[i] = RP
    THEN SplitEnd(s, i + 1, seps, quote, IF depth > 0 THEN depth - 1 ELSE 0)
    ELSE IF depth = 0 /\ s[i] \in seps THEN i
    ELSE SplitEnd(s, i + 1, seps, quote, depth)

\* The loop piece by piece: at a separator the buffer is flushed, and the
\* loop goes on with no quote open and depth 0, as it started.
RECURSIVE SplitWalk(_, _, _)
SplitWalk(rest, seps, out) ==
    IF rest = <<>> THEN out
    ELSE LET p == SplitEnd(rest, 1, seps, NoQuote, 0)
         IN SplitWalk(From(rest, p), seps, Flush(SubSeq(rest, 1, p - 1), out))

split_actions(action_str) ==
    SplitWalk(strip(action_str), {SEMI, NL}, <<>>)

\* Python's tokenizer on a string literal: the number of lexemes from the one
\* after the opening quote q up to the closing quote, 0 if the literal does
\* not end (a backslash escapes the lexeme after it, a newline ends the line).
RECURSIVE StrEnd(_, _, _)
StrEnd(s, q, k) ==
    IF s = <<>> \/ Head(s) = NL THEN 0
    ELSE IF Head(s) = BS
    THEN IF Len(s) < 2 THEN 0 ELSE StrEnd(Tail(Tail(s)), q, k + 2)
    ELSE IF Head(s) = q THEN k
    ELSE StrEnd(Tail(s), q, k + 1)

\* Python's tokens of an expression: "str", "num", "name", the punctuation of
\* a call, "bad" (and then nothing more) for what is no token of a call with
\* literal arguments.
RECURSIVE PyTokens(_)
PyTokens(s) ==
    IF s = <<>> THEN <<>>
    ELSE LET c == Head(s)
         IN IF IsSpace(c) THEN PyTokens(Tail(s))
            ELSE IF c \in {DQ, SQ}
            THEN LET n == StrEnd(Tail(s), c, 1)
                 IN IF n = 0 THEN <<"bad">>
                    ELSE <<"str">> \o PyTokens(From(s, n + 1))
            ELSE IF c \in Numerals /\ Len(s) >= 3 /\ s[2] = DOT /\ s[3] \in Numerals
            THEN <<"num">> \o PyTokens(From(s, 3))
            ELSE IF IsWord(c)
            THEN <<IF c \in Numerals THEN "num" ELSE "name">>
                 \o PyTokens(From(s, WordLen(s)))
            ELSE IF c \in {LP, RP, COMMA, EQ} THEN <<c>> \o PyTokens(Tail(s))
            ELSE <<"bad">>

\* The argument list of a call, token by token.  st: "item" (an argument or
\* the end may follow), "named" (a name was read), "value" (a keyword's
\* value must follow), "after" (a comma or the end may follow); kw: a
\* keyword argument was read (no positional argument may follow).  A keyword
\* value that is a name makes ast.literal_eval raise; nested parentheses are
\* beyond the texts modelled here.
RECURSIVE ArgsOk(_, _, _)
ArgsOk(ts, st, kw) ==
    IF ts = <<>> THEN st \in {"item", "named", "after"} /\ ~ (st = "named" /\ kw)
    ELSE LET t == Head(ts)
             r == Tail(ts)
         IN CASE st = "item" ->
                   IF t \in {"str", "num"} THEN ~ kw /\ ArgsOk(r, "after", kw)
                   ELSE IF t = "name" THEN ArgsOk(r, "named", kw)
                   ELSE FALSE
              [] st = "named" ->
                   IF t = EQ THEN ArgsOk(r, "value", TRUE)
                   ELSE IF t = COMMA THEN ~ kw /\ ArgsOk(r, "item", kw)
                   ELSE FALSE
              [] st = "value" ->
                   IF t \in {"str", "num"} THEN ArgsOk(r, "after", kw) ELSE FALSE
              [] st = "after" ->
                   IF t = COMMA THEN ArgsOk(r, "item", kw) ELSE FALSE

\* ast.parse(src, mode="eval") gives a Call of a Name whose keyword values
\* ast.literal_eval accepts.
AstCall(src) ==
    LET ts == PyTokens(src)
    IN /\ Len(ts) >= 3
       /\ ts[1] = "name"
       /\ ts[2] = LP
       /\ ts[Len(ts)] = RP
       /\ ArgsOk(SubSeq(ts, 3, Len(ts) - 1), "item", FALSE)

\* re.match(r"^(\w+)\((.*)\)$", s)
FallbackMatch(s) ==
    LET n == WordLen(s)
    IN /\ n >= 1
       /\ Len(s) >= n + 2
       /\ s[n + 1] = LP
       /\ s[Len(s)] = RP
       /\ \A i \in (n + 2)..(Len(s) - 1) : s[i] # NL

\* str.rstrip(".")
RECURSIVE rstrip_dots(_)
rstrip_dots(s) ==
    IF s # <<>> /\ s[Len(s)] = DOT THEN rstrip_dots(SubSeq(s, 1, Len(s) - 1)) ELSE s

\* _parse_action_call: the function name, or the exception it raises (the
\* keyword arguments are left out; _preprocess_action rewrites tokens that
\* are no lexemes here).
parse_action_call(action_src) ==
    LET src == rstrip_dots(strip(action_src))
    IN IF WordRun(src) THEN [raised |-> "", func |-> src]
       ELSE IF AstCall(src)
       THEN [raised |-> "", func |-> SubSeq(lstrip(src), 1, WordLen(lstrip(src)))]
       ELSE IF FallbackMatch(strip(src))
       THEN [raised |-> "", func |-> SubSeq(strip(src), 1, WordLen(strip(src)))]
       ELSE [raised |-> "ValueError", func |-> <<>>]

\* except Exception as e: (in parse_predictions)
CaughtByParser(e) == e \in {"ValueError", "SyntaxError"}

\* The loop of parse_predictions over raw_actions, parsed[i] being what
\* _parse_action_call gives for raw_actions[i].
ParsedActions(raw_actions, parsed) ==
    IF \E i \in 1..Len(parsed) : parsed[i].raised # "" /\ ~ CaughtByParser(parsed[i].raised)
    THEN [raised |-> parsed[CHOOSE i \in 1..Len(parsed) :
                               /\ parsed[i].raised # ""
                               /\ ~ CaughtByParser(parsed[i].raised)
                               /\ \A j \in 1..(i - 1) :
                                     parsed[j].raised = "" \/ CaughtByParser(parsed[j].raised)].raised,
          preds |-> <<>>]
    ELSE [raised |-> "",
          preds |-> [i \in 1..Len(raw_actions) |->
                       IF parsed[i].raised # ""
                       THEN ParsedAction(ERROR_ENV, raw_actions[i], "parse error")
                       ELSE ParsedAction(parsed[i].func, raw_actions[i], "")]]

\* for raw in raw_actions: ...
ParseRawActions(raw_actions) ==
    ParsedActions(raw_actions,
                  [i \in 1..Len(raw_actions) |-> parse_action_call(raw_actions[i])])

\* parse_predictions from the action section on.
ParseActionStr(action_str) ==
    IF action_str = <<>>
    THEN [raised |-> "", preds |-> <<ParsedAction(ERROR_ENV, <<>>, "missing action")>>]
    ELSE ParseRawActions(split_actions(action_str))

\* parse_predictions: what it raises ("" if it returns) and the list it
\* returns.
parse_predictions(text) == ParseActionStr(ActionStr(text))

\* The texts handed to the parser: every text of up to MaxText lexemes of
\* ParseAlphabet, and the texts that join up to MaxStmts of the statements
\* below, with or without the marker in front.
MaxText == 3
MaxStmts == 2

ParseAlphabet == {"wait", LP, RP, SEMI, NL, SP, DQ, ACTION_MARK}

ShortTexts == UNION {[1..n -> ParseAlphabet] : n \in 0..MaxText}

\* click(a="b") | wait() | wait | foo bar | type(content="a;b") |
\* type(content="a\");b") | wait (NL) | wait(. | click(a=b)
ParseStatements == {
    <<"click", LP, "a", EQ, DQ, "b", DQ, RP>>,
    <<"wait", LP, RP>>,
    <<"wait">>,
    <<"foo", SP, "bar">>,
    <<"type", LP, "content", EQ, DQ, "a", SEMI, "b", DQ, RP>>,
    <<"type", LP, "content", EQ, DQ, "a", BS, DQ, RP, SEMI, "b", DQ, RP>>,
    <<"wait", SP, LP, NL, RP>>,
    <<"wait", LP, DOT>>,
    <<"click", LP, "a", EQ, "b", RP>> }

\* sep.join(parts)
RECURSIVE Join(_, _)
Join(parts, sep) ==
    IF parts = <<>> THEN <<>>
    ELSE IF Len(parts) = 1 THEN parts[1]
    ELSE parts[1] \o sep \o Join(Tail(parts), sep)

StatementLists == UNION {[1..n -> ParseStatements] : n \in 1..MaxStmts}

JoinedTexts ==
    {pre \o Join(l, sep) : pre \in {<<>>, <<ACTION_MARK, SP>>, <<"wait", LP, RP, NL, ACTION_MARK>>},
                           l \in StatementLists, sep \in {<<SEMI>>, <<NL>>, <<SEMI, SP>>}}

ParseTexts == ShortTexts \cup JoinedTexts

\* A call of parse_predictions returns (or raises).  The function keeps no
\* state, so a behaviour makes one call.
ParsePredictions ==
    /\ call = NoCall
    /\ \E text \in ParseTexts :
         LET r == parse_predictions(text)
         IN call' = [op |-> "parse_predictions", arg |-> 0, before |-> text,
                     after |-> <<>>, ret |-> r.raised, out |-> r.preds]
    /\ UNCHANGED <<cfg, ctl, conv, reason, l0cache, locals, obs,
                   sent_type_ascii_guidance, mon, lock, thr>>

InitParse ==
    /\ cfg \in LongConfig
    /\ Constructed

NextParse == ParsePredictions

SpecParse == InitParse /\ [][NextParse]_vars

\* --------------------------------------------------- Action Script Compiler
\* What a compiler function gives: the exception it raises ("" if it
\* returns) and the list it returns.
Returned(calls) == [raised |-> "", calls |-> calls]
Raised(e) == [raised |-> e, calls |-> <<>>]

\* No variables (vars = None, an empty environment).
NoVars == [n \in {} |-> <<>>]

\* The name a template reference holds; ${app} does not match
\* _TEMPLATE_RE = r"\$\{([A-Z0-9_]+)\}".
TemplateNames == [r \in {TPL_APP, TPL_B} |-> IF r = TPL_APP THEN "APP" ELSE "B"]

RECURSIVE Concat(_)
Concat(seqs) == IF seqs = <<>> THEN <<>> ELSE Head(seqs) \o Concat(Tail(seqs))

\* Variant: the environment is looked up before the explicit variables.
Lookup_EnvironFirst(k, vs, environ, verbatim) ==
    IF k \in DOMAIN environ THEN environ[k]
    ELSE IF k \in DOMAIN vs THEN vs[k]
    ELSE verbatim

\* repl(m) of render_template
Lookup(k, vs, environ, verbatim) ==
    IF k \in DOMAIN vs THEN vs[k]
    ELSE IF k \in DOMAIN environ THEN environ[k]
    ELSE verbatim

\* render_template: one pass of _TEMPLATE_RE.sub over the text; environ is
\* os.environ.
render_template(text, vs, environ) ==
    Concat([i \in 1..Len(text) |->
              IF text[i] \in DOMAIN TemplateNames
              THEN Lookup(TemplateNames[text[i]], vs, environ, <<text[i]>>)
              ELSE <<text[i]>>])

\* _TOP_SPLIT_CHARS
TOP_SPLIT_CHARS == {NL, SEMI, COMMA}

split_top_level(text) ==
    SplitWalk(strip(text), TOP_SPLIT_CHARS, <<>>)

KNOWN_KEYWORDS == {"iphone_home", "iphone_app_switcher", "sleep", "wait", "swipe",
                   "fswipe", "scroll", "hotkey", "type", "open_app", "include",
                   "run_script"}

\* The bare action tokens _looks_like_action_call and _expand_stmt accept.
BareActions == {"iphone_home", "iphone_app_switcher", "wait", "finished", "call_user"}

IsBareAction(s) == Len(s) = 1 /\ s[1] \in BareActions

\* re.match(r"^[A-Za-z_]\w*\(.*\)$", s), or a bare action token
looks_like_action_call(stmt) ==
    LET s == strip(stmt)
        n == WordLen(s)
    IN \/ /\ n >= 1
          /\ s[1] \notin Numerals
          /\ Len(s) >= n + 2
          /\ s[n + 1] = LP
          /\ s[Len(s)] = RP
          /\ \A i \in (n + 2)..(Len(s) - 1) : s[i] # NL
       \/ IsBareAction(s)

\* str.split(): the runs of lexemes between whitespace
RECURSIVE SplitWs(_, _, _)
SplitWs(rest, cur, out) ==
    IF rest = <<>> THEN IF cur # <<>> THEN Append(out, cur) ELSE out
    ELSE IF IsSpace(Head(rest))
    THEN SplitWs(Tail(rest), <<>>, IF cur # <<>> THEN Append(out, cur) ELSE out)
    ELSE SplitWs(Tail(rest), Append(cur, Head(rest)), out)

\* low in _KNOWN_KEYWORDS, for a token
IsKeyword(tok) == Len(tok) = 1 /\ tok[1] \in KNOWN_KEYWORDS

RECURSIVE CompoundWalk(_, _, _)
CompoundWalk(toks, cur, out) ==
    IF toks = <<>> THEN IF cur # <<>> THEN Append(out, Join(cur, <<SP>>)) ELSE out
    ELSE IF IsKeyword(Head(toks)) /\ cur # <<>>
    THEN CompoundWalk(Tail(toks), <<Head(toks)>>, Append(out, Join(cur, <<SP>>)))
    ELSE CompoundWalk(Tail(toks), Append(cur, Head(toks)), out)

\* _split_compound_no_parens: split at keyword boundaries
split_compound_no_parens(stmt) == CompoundWalk(SplitWs(strip(stmt), <<>>, <<>>), <<>>, <<>>)

\* The position of the close parenthesis at which _explode_function_prefix
\* cuts s (0: none), scanning from position i.
RECURSIVE ExplodeAt(_, _, _, _)
ExplodeAt(s, i, quote, depth) ==
    IF i > Len(s) THEN 0
    ELSE IF quote # NoQuote
    THEN ExplodeAt(s, i + 1, IF s[i] = quote THEN NoQuote ELSE quote, depth)
    ELSE IF s[i] \in {SQ, DQ} THEN ExplodeAt(s, i + 1, s[i], depth)
    ELSE IF s[i] = LP THEN ExplodeAt(s, i + 1, quote, depth + 1)
    ELSE IF s[i] = RP
    THEN IF depth <= 1 THEN i ELSE ExplodeAt(s, i + 1, quote, depth - 1)
    ELSE ExplodeAt(s, i + 1, quote, depth)

\* _explode_function_prefix from the cut position on
CutAt(s, i) ==
    IF i = 0 THEN <<s>>
    ELSE SelectSeq(<<strip(SubSeq(s, 1, i)), strip(From(s, i))>>, LAMBDA x : x # <<>>)

ExplodeStripped(s) ==
    IF s = <<>> THEN <<>>
    ELSE IF \A k \in 1..Len(s) : s[k] # LP THEN <<s>>
    ELSE CutAt(s, ExplodeAt(s, 1, NoQuote, 0))

explode_function_prefix(stmt) == ExplodeStripped(strip(stmt))

\* shlex.split(s, posix=True): the tokens, or ok = FALSE where it raises (no
\* closing quotation, no escaped character).  cur is the token being read,
\* open tells whether one is being read.
RECURSIVE ShlexWalk(_, _, _, _, _)
ShlexWalk(rest, quote, cur, open, out) ==
    IF rest = <<>>
    THEN IF quote # NoQuote THEN [ok |-> FALSE, toks |-> <<>>]
         ELSE [ok |-> TRUE, toks |-> IF open THEN Append(out, cur) ELSE out]
    ELSE LET ch == Head(rest)
             r == Tail(rest)
         IN IF quote = SQ
            THEN IF ch = SQ THEN ShlexWalk(r, NoQuote, cur, TRUE, out)
                 ELSE ShlexWalk(r, SQ, Append(cur, ch), TRUE, out)
            ELSE IF quote = DQ
            THEN IF ch = DQ THEN ShlexWalk(r, NoQuote, cur, TRUE, out)
                 ELSE IF ch = BS
                 THEN IF r = <<>> THEN [ok |-> FALSE, toks |-> <<>>]
                      ELSE IF Head(r) \in {DQ, BS}
                      THEN ShlexWalk(Tail(r), DQ, Append(cur, Head(r)), TRUE, out)
                      ELSE ShlexWalk(Tail(r), DQ, cur \o <<BS, Head(r)>>, TRUE, out)
                 ELSE ShlexWalk(r, DQ, Append(cur, ch), TRUE, out)
            ELSE IF IsSpace(ch)
            THEN ShlexWalk(r, NoQuote, <<>>, FALSE, IF open THEN Append(out, cur) ELSE out)
            ELSE IF ch = BS
            THEN IF r = <<>> THEN [ok |-> FALSE, toks |-> <<>>]
                 ELSE ShlexWalk(Tail(r), NoQuote, Append(cur, Head(r)), TRUE, out)
            ELSE IF ch \in {SQ, DQ} THEN ShlexWalk(r, ch, cur, TRUE, out)
            ELSE ShlexWalk(r, NoQuote, Append(cur, ch), TRUE, out)

\* try: toks = shlex.split(s, posix=True)  except Exception: toks = s.split()
Tokens(s) ==
    LET sh == ShlexWalk(s, NoQuote, <<>>, FALSE, <<>>)
    IN IF sh.ok THEN sh.toks ELSE SplitWs(s, <<>>, <<>>)

\* int(tok) / float(tok) succeed (the numbers of the texts are single
\* numerals)
IsInt(tok) == Len(tok) = 1 /\ tok[1] \in Numerals

\* json.dumps(s) between the quotes
RECURSIVE JsonEscape(_)
JsonEscape(s) ==
    IF s = <<>> THEN <<>>
    ELSE (CASE Head(s) = DQ -> <<BS, DQ>>
            [] Head(s) = BS -> <<BS, BS>>
            [] Head(s) = NL -> <<BS, "n">>
            [] OTHER -> <<Head(s)>>) \o JsonEscape(Tail(s))

\* _quote_py_string
quote_py_string(s) == <<DQ>> \o JsonEscape(s) \o <<DQ>>

\* str.replace for a pattern of two lexemes
RECURSIVE ReplacePair(_, _, _, _)
ReplacePair(s, a, b, c) ==
    IF Len(s) < 2 THEN s
    ELSE IF s[1] = a /\ s[2] = b THEN <<c>> \o ReplacePair(Tail(Tail(s)), a, b, c)
    ELSE <<s[1]>> \o ReplacePair(Tail(s), a, b, c)

\* _unescape_type_content: \n, then \" and \', then \\ (no text here holds \r
\* or \t)
unescape_type_content(s) ==
    ReplacePair(ReplacePair(ReplacePair(ReplacePair(s, BS, "n", NL), BS, DQ, DQ),
                            BS, SQ, SQ), BS, BS, BS)

Call0(name) == <<name, LP, RP>>
Call1(name, key, value) == <<name, LP, key, EQ>> \o value \o <<RP>>

\* _parse_sleep_tokens
parse_sleep_tokens(args) ==
    IF args = <<>> THEN Returned(<<Call1("sleep", "ms", <<"50">>)>>)
    ELSE LET a0 == args[1]
             n == SubSeq(a0, 1, Len(a0) - 1)
         IN IF a0 # <<>> /\ a0[Len(a0)] = "ms"
            THEN IF IsInt(n) THEN Returned(<<Call1("sleep", "ms", n)>>)
                 ELSE Raised("ValueError")
            ELSE IF a0 # <<>> /\ a0[Len(a0)] = "s"
            THEN IF IsInt(n) THEN Returned(<<Call1("sleep", "seconds", n \o <<DOT, "0">>)>>)
                 ELSE Raised("ValueError")
            ELSE IF IsInt(a0) THEN Returned(<<Call1("sleep", "ms", a0)>>)
            ELSE Raised("ValueError")

Directions == {"up", "down", "left", "right"}

\* _macro_open_app
macro_open_app(name) ==
    IF strip(name) = <<>> THEN Raised("ScriptParseError")
    ELSE Returned(<<Call0("iphone_home"),
                    Call1("swipe", "direction", <<SQ, "down", SQ>>),
                    Call1("sleep", "ms", <<"120">>),
                    Call1("type", "content", quote_py_string(strip(name) \o <<NL>>)),
                    Call1("sleep", "ms", <<"350">>)>>)

\* looks_like_path of the include command ("/" is no lexeme here)
LooksLikePath(target) ==
    \/ \E i \in 1..Len(target) : target[i] = BS
    \/ target[1] = DOT
    \/ Len(target) >= 2 /\ target[Len(target) - 1] = DOT /\ target[Len(target)] = "txt"

\* _parse_vars_tokens raises (a token without "=", or with an empty key)
BadVarsToken(tok) == tok # <<>> /\ ((\A i \in 1..Len(tok) : tok[i] # EQ) \/ tok[1] = EQ)

\* calls * rep
RECURSIVE Times(_, _)
Times(calls, rep) == IF rep <= 0 THEN <<>> ELSE calls \o Times(calls, rep - 1)

\* s[len(toks[0]):].lstrip() of the type and open_app commands
ContentOf(s, tok) == lstrip(From(s, Len(tok)))

\* The calls of a keyword command, before the repetition.
Command(s, cmd, rest) ==
    CASE cmd \in {<<"iphone_home">>, <<"home">>} -> Returned(<<Call0("iphone_home")>>)
      [] cmd \in {<<"iphone_app_switcher">>, <<"app_switcher">>} ->
            Returned(<<Call0("iphone_app_switcher")>>)
      [] cmd = <<"sleep">> -> parse_sleep_tokens(rest)
      [] cmd = <<"wait">> -> Returned(<<Call0("wait")>>)
      [] cmd \in {<<"swipe">>, <<"fswipe">>} ->
            IF rest = <<>> \/ Len(rest[1]) # 1 THEN Raised("ScriptParseError")
            ELSE IF rest[1][1] \notin Directions THEN Raised("ScriptParseError")
            ELSE Returned(<<Call1("swipe", "direction", quote_py_string(rest[1]))>>)
      [] cmd = <<"scroll">> ->
            IF rest = <<>> \/ Len(rest[1]) # 1 THEN Raised("ScriptParseError")
            ELSE IF rest[1][1] \notin Directions THEN Raised("ScriptParseError")
            ELSE Returned(<<Call1("scroll", "direction", quote_py_string(rest[1]))>>)
      [] cmd = <<"hotkey">> ->
            IF rest = <<>> THEN Raised("ScriptParseError")
            ELSE Returned(<<Call1("hotkey", "key", quote_py_string(strip(Join(rest, <<SP>>))))>>)
      [] cmd = <<"type">> ->
            Returned(<<Call1("type", "content",
                             quote_py_string(unescape_type_content(ContentOf(s, cmd))))>>)
      [] cmd = <<"open_app">> -> macro_open_app(ContentOf(s, cmd))
      [] cmd \in {<<"include">>, <<"run_script">>} ->
            IF rest = <<>> \/ rest[1] = <<>> THEN Raised("ScriptParseError")
            ELSE IF \E i \in 2..Len(rest) : BadVarsToken(rest[i])
            THEN Raised("ScriptParseError")
            ELSE Returned(<<Call1("run_script",
                                  IF LooksLikePath(rest[1]) THEN "path" ELSE "name",
                                  quote_py_string(rest[1]))>>)
      [] OTHER -> Raised("ScriptParseError")

\* if rep <= 0: return []; return calls * rep
Repeated(calls, rep) == IF rep <= 0 THEN <<>> ELSE Times(calls, rep)

\* The end of _expand_stmt: base is what the command gave.
RepeatedCalls(base, rep) ==
    IF base.raised # "" THEN base ELSE Returned(Repeated(base.calls, rep))

\* len(rest) >= 2 and rest[-2].lower() == "x", and int(rest[-1]) succeeds
HasRep(rest) ==
    /\ Len(rest) >= 2
    /\ rest[Len(rest) - 1] = <<"x">>
    /\ IsInt(rest[Len(rest)])

\* _expand_stmt from cmd = toks[0], rest = toks[1:] on (an include with
\* KEY=VALUE tokens is beyond the texts modelled here: its call is given
\* without the vars argument)
ExpandCommand(s, cmd, rest) ==
    IF HasRep(rest)
    THEN RepeatedCalls(Command(s, cmd, SubSeq(rest, 1, Len(rest) - 2)),
                       IntOf(rest[Len(rest)][1]))
    ELSE RepeatedCalls(Command(s, cmd, rest), 1)

\* if not toks: return []
ExpandTokens(s, toks) ==
    IF toks = <<>> THEN Returned(<<>>) ELSE ExpandCommand(s, Head(toks), Tail(toks))

\* _expand_stmt from s = stmt.strip() on
ExpandStripped(s) ==
    IF s = <<>> THEN Returned(<<>>)
    ELSE IF Head(s) = HASH THEN Returned(<<>>)
    ELSE IF looks_like_action_call(s)
    THEN IF IsBareAction(s) THEN Returned(<<s \o <<LP, RP>>>>) ELSE Returned(<<s>>)
    ELSE ExpandTokens(s, Tokens(s))

\* _expand_stmt
expand_stmt(stmt) == ExpandStripped(strip(stmt))

\* The statements a piece of _explode_function_prefix gives.
PieceStmts(piece) ==
    IF piece = <<>> THEN <<>>
    ELSE IF \A k \in 1..Len(piece) : piece[k] \notin {LP, RP, EQ}
    THEN split_compound_no_parens(piece)
    ELSE <<piece>>

PiecesStmts(pieces) == Concat([j \in 1..Len(pieces) |-> PieceStmts(strip(pieces[j]))])

\* expanded_stmts of script_to_action_calls
ExpandedStmts(stmts) ==
    Concat([i \in 1..Len(stmts) |-> PiecesStmts(explode_function_prefix(stmts[i]))])

\* for st in expanded_stmts: out.extend(_expand_stmt(ctx, st)); the first
\* exception ends the loop.  ExpandNext goes on from what _expand_stmt gave
\* for the statement before stmts.
RECURSIVE ExpandAll(_, _)
RECURSIVE ExpandNext(_, _, _)
ExpandNext(r, stmts, out) ==
    IF r.raised # "" THEN r ELSE ExpandAll(stmts, out \o r.calls)

ExpandAll(stmts, out) ==
    IF stmts = <<>> THEN Returned(out)
    ELSE ExpandNext(expand_stmt(Head(stmts)), Tail(stmts), out)

\* return [c for c in out if c.strip()]
NonEmptyCalls(r) ==
    IF r.raised # "" THEN r
    ELSE Returned(SelectSeq(r.calls, LAMBDA x : strip(x) # <<>>))

script_to_action_calls(text, vs, environ) ==
    NonEmptyCalls(ExpandAll(ExpandedStmts(split_top_level(render_template(text, vs, environ))),
                            <<>>))

\* return [p for p in preds if p.action_type != "error_env"]
Kept(preds) == Returned(SelectSeq(preds, LAMBDA p : p.action_type # ERROR_ENV))

\* script_to_predictions from calls = script_to_action_calls(...) on
CallsToPredictions(r) ==
    IF r.raised # "" THEN r
    ELSE IF r.calls = <<>> THEN Returned(<<>>)
    ELSE Kept(parse_predictions(<<ACTION_MARK, SP>> \o Join(r.calls, <<NL>>)).preds)

script_to_predictions(text, vs, environ) ==
    CallsToPredictions(script_to_action_calls(text, vs, environ))

\* ------------------------------------------------- the texts that are compiled
\* The explicit variable maps and the environments of a compilation.
VarMaps == {NoVars,
            [n \in {"APP"} |-> <<"x">>],
            [n \in {"APP", "B"} |-> IF n = "APP" THEN <<TPL_B>> ELSE <<"z">>],
            [n \in {"app"} |-> <<"y">>]}

Environs == {NoVars, [n \in {"APP"} |-> <<"e">>], [n \in {"B"} |-> <<"f">>]}

HasTemplate(text) == \E i \in 1..Len(text) : text[i] \in {TPL_APP, TPL_B, TPL_app}

\* The commands that take a repetition suffix, without it:
\* iphone_home | wait | sleep | sleep 50ms | swipe left | scroll down |
\* hotkey cmd | type hello | open_app Safari | include a
RepCommands == {
    <<"iphone_home">>,
    <<"wait">>,
    <<"sleep">>,
    <<"sleep", SP, "50", "ms">>,
    <<"swipe", SP, "left">>,
    <<"scroll", SP, "down">>,
    <<"hotkey", SP, "cmd">>,
    <<"type", SP, "hello">>,
    <<"open_app", SP, "Safari">>,
    <<"include", SP, "a">> }

\* <command> x N
WithSuffix(cmd, n) == cmd \o <<SP, "x", SP, n>>

RepTexts == {WithSuffix(cmd, n) : cmd \in RepCommands, n \in Numerals \ {"50"}}

\* wait() | sleep abc | type ")a;b | open_app ${APP} | foo | # note | swipe |
\* type a\"b | iphone_home() sleep | click("b")
OtherStatements == {
    <<"wait", LP, RP>>,
    <<"sleep", SP, "abc">>,
    <<"type", SP, DQ, RP, "a", SEMI, "b">>,
    <<"open_app", SP, TPL_APP>>,
    <<"foo">>,
    <<HASH, SP, "note">>,
    <<"swipe">>,
    <<"type", SP, "a", BS, DQ, "b">>,
    <<"iphone_home", LP, RP, SP, "sleep">>,
    <<"click", LP, DQ, "b", DQ, RP>> }

\* The statements of the scripts of several statements:
\* iphone_home | wait() | swipe left x 2 | sleep 50ms | sleep | type hello |
\* type ")a;b | open_app ${APP} | foo | # note
ListStatements == {
    <<"iphone_home">>,
    <<"wait", LP, RP>>,
    <<"swipe", SP, "left", SP, "x", SP, "2">>,
    <<"sleep", SP, "50", "ms">>,
    <<"sleep">>,
    <<"type", SP, "hello">>,
    <<"type", SP, DQ, RP, "a", SEMI, "b">>,
    <<"open_app", SP, TPL_APP>>,
    <<"foo">>,
    <<HASH, SP, "note">> }

ScriptLists == UNION {[1..n -> ListStatements] : n \in 2..MaxStmts}

\* type <content>, for every content of up to MaxContent lexemes
MaxContent == 3

ContentAlphabet == {"a", "n", SP, DQ, BS, RP, SEMI}

TypeTexts == {<<"type", SP>> \o c : c \in UNION {[1..n -> ContentAlphabet] : n \in 1..MaxContent}}

ScriptTexts ==
    {Join(l, sep) : l \in ScriptLists, sep \in {<<SEMI, SP>>, <<NL>>, <<SP>>}}
        \cup RepCommands \cup OtherStatements \cup RepTexts \cup TypeTexts

VarsFor(text) == IF HasTemplate(text) THEN VarMaps ELSE {NoVars}

EnvironsFor(text) == IF HasTemplate(text) THEN Environs ELSE {NoVars}

\* The record of a call of the compiler: its arguments and what it gave.
CompilerCall(op, text, vs, environ, r) ==
    [op |-> op, arg |-> [vars |-> vs, environ |-> environ],
     before |-> text, after |-> <<>>, ret |-> r.raised, out |-> r.calls]

\* A call of script_to_action_calls returns (or raises).  The compiler keeps
\* no state, so a behaviour makes one call.
ScriptToActionCalls ==
    /\ call = NoCall
    /\ \E text \in ScriptTexts :
       \E vs \in VarsFor(text), environ \in EnvironsFor(text) :
         call' = CompilerCall("script_to_action_calls", text, vs, environ,
                              script_to_action_calls(text, vs, environ))
    /\ UNCHANGED <<cfg, ctl, conv, reason, l0cache, locals, obs,
                   sent_type_ascii_guidance, mon, lock, thr>>

\* A call of script_to_predictions returns (or raises).
ScriptToPredictions ==
    /\ call = NoCall
    /\ \E text \in ScriptTexts :
       \E vs \in VarsFor(text), environ \in EnvironsFor(text) :
         call' = CompilerCall("script_to_predictions", text, vs, environ,
                              script_to_predictions(text, vs, environ))
    /\ UNCHANGED <<cfg, ctl, conv, reason, l0cache, locals, obs,
                   sent_type_ascii_guidance, mon, lock, thr>>

\* The texts handed to render_template alone.
TemplateTexts ==
    UNION {[1..n -> {TPL_APP, TPL_B, TPL_app, "open_app", SP}] : n \in 1..MaxText}

\* A call of render_template returns.
RenderTemplate ==
    /\ call = NoCall
    /\ \E text \in TemplateTexts, vs \in VarMaps, environ \in Environs :
         call' = [op |-> "render_template",
                  arg |-> [vars |-> vs, environ |-> environ],
                  before |-> text, after |-> <<>>, ret |-> "",
                  out |-> render_template(text, vs, environ)]
    /\ UNCHANGED <<cfg, ctl, conv, reason, l0cache, locals, obs,
                   sent_type_ascii_guidance, mon, lock, thr>>

\* ------------------------------------------------------- include expansion
\* The script files of the registry, by name:
\* a: include b | b: include a | c: include c | d: iphone_home; include e |
\* e: wait | f: include d; include e | g: swipe
ScriptFiles ==
    [n \in {"a", "b", "c", "d", "e", "f", "g"} |->
       CASE n = "a" -> <<"include", SP, "b", NL>>
         [] n = "b" -> <<"include", SP, "a", NL>>
         [] n = "c" -> <<"include", SP, "c", NL>>
         [] n = "d" -> <<"iphone_home", SEMI, SP, "include", SP, "e", NL>>
         [] n = "e" -> <<"wait", NL>>
         [] n = "f" -> <<"include", SP, "d", SEMI, SP, "include", SP, "e">>
         [] n = "g" -> <<"swipe", NL>>]

\* What the expansion gives: the exception it raises ("" if it returns) with
\* its message and the chain the message names, and the list it returns.
Expanded(preds) == [raised |-> "", msg |-> "", chain |-> <<>>, calls |-> preds]
Failed(msg, chain) ==
    [raised |-> "ScriptParseError", msg |-> msg, chain |-> chain, calls |-> <<>>]

DEPTH_EXCEEDED == "run_script expansion depth exceeded; possible recursion"
CIRCULAR == "circular script include detected"

\* parse_run_script_call, target = path or name: the string of the name or
\* path keyword of run_script(name="..."), empty if there is none.
run_script_target(raw) ==
    IF /\ Len(raw) >= 8
       /\ SubSeq(raw, 1, 2) = <<"run_script", LP>>
       /\ raw[3] \in {"name", "path"}
       /\ SubSeq(raw, 4, 5) = <<EQ, DQ>>
       /\ SubSeq(raw, Len(raw) - 1, Len(raw)) = <<DQ, RP>>
    THEN strip(SubSeq(raw, 6, Len(raw) - 2))
    ELSE <<>>

\* resolve_script_path finds the target
Registered(target) == Len(target) = 1 /\ target[1] \in DOMAIN ScriptFiles

\* script_path in stack
InStack(target, stack) == \E i \in 1..Len(stack) : stack[i] = target

RECURSIVE expand_prediction_recursive(_, _, _)
RECURSIVE ExpandList(_, _, _, _)

\* out.extend(...) of the two loops: r is what the expansion of the
\* prediction before preds gave.
ExpandRest(r, preds, stack, depth_left, out) ==
    IF r.raised # "" THEN r ELSE ExpandList(preds, stack, depth_left, out \o r.calls)

\* for p in inner: out.extend(_expand_prediction_recursive(p, ...))
ExpandList(preds, stack, depth_left, out) ==
    IF preds = <<>> THEN Expanded(out)
    ELSE ExpandRest(expand_prediction_recursive(Head(preds), stack, depth_left),
                    Tail(preds), stack, depth_left, out)

\* _expand_prediction_recursive from inner = script_to_predictions(src, ...) on
ExpandInner(inner, next_stack, depth_left) ==
    IF inner.raised # ""
    THEN [raised |-> inner.raised, msg |-> "", chain |-> <<>>, calls |-> <<>>]
    ELSE ExpandList(inner.calls, next_stack, depth_left, <<>>)

\* _expand_prediction_recursive from the target on
ExpandTarget(target, stack, depth_left) ==
    IF target = <<>> THEN Failed("run_script(...) missing name/path", <<>>)
    ELSE IF ~ Registered(target) THEN Failed("unknown script", <<>>)
    ELSE IF InStack(target, stack) THEN Failed(CIRCULAR, Append(stack, target))
    ELSE ExpandInner(script_to_predictions(ScriptFiles[target[1]], NoVars, NoVars),
                     Append(stack, target), depth_left - 1)

\* Variant: the depth test one level late.
DepthExhausted_Late(depth_left) == depth_left < 0

\* if depth_left <= 0: raise
DepthExhausted(depth_left) == depth_left <= 0

expand_prediction_recursive(pred, stack, depth_left) ==
    IF pred.action_type # <<"run_script">> THEN Expanded(<<pred>>)
    ELSE IF DepthExhausted(depth_left) THEN Failed(DEPTH_EXCEEDED, <<>>)
    ELSE ExpandTarget(run_script_target(pred.raw_action), stack, depth_left)

\* expand_special_predictions: depth = max(0, int(max_expand_depth))
expand_special_predictions(preds, max_expand_depth) ==
    ExpandList(preds, <<>>, IF max_expand_depth > 0 THEN max_expand_depth ELSE 0, <<>>)

\* max_expand_depth: int = 2, the depth of the worker loop's call
DEFAULT_EXPAND_DEPTH == 2
MaxDepth == 4
ExpandDepths == (0 - 1)..MaxDepth

\* The scripts whose predictions are expanded: include <name> for every file
\* and for the unknown name zz | iphone_home | run_script() |
\* include e; include a | wait; include d
ExpandTexts ==
    {<<"include", SP, n>> : n \in DOMAIN ScriptFiles \cup {"zz"}}
      \cup {<<"iphone_home">>,
            <<"run_script", LP, RP>>,
            <<"include", SP, "e", SEMI, SP, "include", SP, "a">>,
            <<"wait", SEMI, SP, "include", SP, "d">>}

\* The record of a call of expand_special_predictions on the predictions of
\* text.
ExpansionCall(text, depth, r) ==
    [op |-> "expand_special_predictions", arg |-> depth, before |-> text,
     after |-> [msg |-> r.msg, chain |-> r.chain], ret |-> r.raised, out |-> r.calls]

\* A call of expand_special_predictions returns (or raises), on the
\* predictions a script compiled to.
ExpandSpecialPredictions ==
    /\ call = NoCall
    /\ \E text \in ExpandTexts, depth \in ExpandDepths :
         call' = ExpansionCall(text, depth,
                   expand_special_predictions(
                       script_to_predictions(text, NoVars, NoVars).calls, depth))
    /\ UNCHANGED <<cfg, ctl, conv, reason, l0cache, locals, obs,
                   sent_type_ascii_guidance, mon, lock, thr>>

InitScript ==
    /\ cfg \in LongConfig
    /\ Constructed

NextScript ==
    \/ ScriptToActionCalls
    \/ ScriptToPredictions
    \/ RenderTemplate
    \/ ExpandSpecialPredictions

SpecScript == InitScript /\ [][NextScript]_vars

\* ------------------------------------------------- run_script in a live step
\* The model's replies that hold run_script actions (as the parser reads
\* them), beside one without:
\* click("b") | run_script(name="d") | click("b") NL NL run_script(name="e") |
\* click("b") NL NL run_script(name="zz") (unknown script) |
\* run_script(name="a") (cycle) | run_script(name="f") (too deep) |
\* run_script(name="g") (does not compile) | wait( (a parse error)
RunScriptCall(n) == <<"run_script", LP, "name", EQ, DQ, n, DQ, RP>>
ClickB == <<"click", LP, DQ, "b", DQ, RP>>

ScriptedReplies ==
    {<<ACTION_MARK, SP>> \o ClickB,
     <<ACTION_MARK, SP>> \o RunScriptCall("d"),
     <<ACTION_MARK, SP>> \o ClickB \o <<NL, NL>> \o RunScriptCall("e"),
     <<ACTION_MARK, SP>> \o ClickB \o <<NL, NL>> \o RunScriptCall("zz"),
     <<ACTION_MARK, SP>> \o RunScriptCall("a"),
     <<ACTION_MARK, SP>> \o RunScriptCall("f"),
     <<ACTION_MARK, SP>> \o RunScriptCall("g"),
     <<ACTION_MARK, SP, "wait", LP>>}

\* The parsed actions as the loop's records: the action type by its name.
LoopPreds(preds) == [i \in 1..Len(preds) |-> Pred(preds[i].action_type[1], preds[i].raw_action)]

\* non_err = [p for p in preds if p.action_type != "error_env"]
NonErrParsed(preds) == SelectSeq(preds, LAMBDA p : p.action_type # ERROR_ENV)

\* Variant: the failure of the expansion goes to the loop's handler.
ExpansionFailed_ToHandler ==
    /\ ExceptHandler
    /\ UNCHANGED paused

\* except Exception as e: ...; set_status(HANG); pause(); ...; continue
ExpansionFailed ==
    /\ set_status(HANG)
    /\ pause
    /\ reason' = "run_script_error"
    /\ NextIteration

\* From exec_results = [] on: the expansion of the step's actions (r is what
\* it gave), and either its handler or the list the for loop walks.
ExpandStep(r) ==
    IF r.raised # ""
    THEN /\ ExpansionFailed
         /\ obs' = [obs EXCEPT !.decided = @ + 1, !.appended = @ + 1,
                                !.errRun = 0, !.cut = "run_script"]
    ELSE /\ non_err' = LoopPreds(r.calls)
         /\ exec_results' = <<>>
         /\ pc' = IF r.calls = <<>> THEN "post" ELSE "act"
         /\ obs' = [obs EXCEPT !.decided = @ + 1, !.appended = @ + 1,
                                !.errRun = 0]
         /\ UNCHANGED <<status, paused, reason, shot, pre_fp, l0_entry,
                        l0_exec_ok, l0_exec_results>>

\* invoke_model returned parsed: assistant turn, parse-error check, expansion
DecideScriptedOk(parsed) ==
    /\ conv' = Append(conv, ConversationItem("assistant", "reply"))
    /\ IF NonErrParsed(parsed) = <<>>
       THEN /\ parse_err_streak' = parse_err_streak + 1
            /\ IF ParseStreakHangs(parse_err_streak + 1)
               THEN /\ set_status(HANG)
                    /\ pause
                    /\ reason' = "parse_error_streak"
               ELSE UNCHANGED <<status, paused, reason>>
            /\ NextIteration
            /\ obs' = [obs EXCEPT !.decided = @ + 1, !.appended = @ + 1,
                                   !.errRun = @ + 1,
                                   !.errExec = (obs.errRun > 0 /\ @)
                                               \/ l0_exec_results # <<>>]
       ELSE /\ parse_err_streak' = 0
            /\ ExpandStep(expand_special_predictions(NonErrParsed(parsed),
                                                     DEFAULT_EXPAND_DEPTH))

\* The decision call answering with the replies above.
DecideScripted ==
    /\ pc = "decide"
    /\ \/ \E text \in ScriptedReplies : DecideScriptedOk(parse_predictions(text).preds)
       \/ /\ ExceptHandler
          /\ obs' = [obs EXCEPT !.decided = @ + 1]
          /\ UNCHANGED <<paused, conv, parse_err_streak>>
    /\ UNCHANGED <<cfg, stopped, pending, l0cache, step, repeat_streak, last_sig>>
    /\ UNCHANGED aside

InitRunScript ==
    /\ cfg \in {c \in ShortConfig : DefaultSwitches(c)}
    /\ Constructed

NextRunScript ==
    \/ Launch
    \/ LoopTop
    \/ PauseGate
    \/ PauseTick
    \/ DrainAndCount
    \/ Capture
    \/ ReplayAction
    \/ VerifyReplay
    \/ DecideScripted
    \/ LiveAction
    \/ PostStep
    \/ RecordStep
    \/ Control

SpecRunScript == InitRunScript /\ [][NextRunScript]_vars

\* ------------------------------------------------------- supervisor exec
\* POST /v1/agent/exec and POST /v1/agent/script/run, each served by a thread
\* of its own.  call holds the request that is being served: arg the number
\* of actions its list expands to, before the screenshot of the handler,
\* after the endpoint, out the results so far, ret the HTTP status of the
\* answer (0 until it is sent).
MaxReq == 2

ExecEndpoints == {"exec", "script_run"}

ExecAnswer(path, code) ==
    [op |-> "exec_done", arg |-> 0, before |-> <<>>, after |-> <<path>>,
     ret |-> code, out |-> <<>>]

\* snap = outer.control.snapshot(); if not snap.get("paused"): 409
ExecAdmitted(p) == p

\* The handler up to the parsed and expanded list: 403 if exec is disabled,
\* 409 if the worker is not paused, 400 if the list is empty or the
\* expansion fails (n = 0).
PostExec ==
    /\ call = NoCall
    /\ \E path \in ExecEndpoints, enabled \in BOOLEAN, n \in 0..MaxReq :
         call' = IF ~enabled THEN ExecAnswer(path, 403)
                 ELSE IF ~ExecAdmitted(paused) THEN ExecAnswer(path, 409)
                 ELSE IF n = 0 THEN ExecAnswer(path, 400)
                 ELSE [op |-> "exec", arg |-> n, before |-> <<>>,
                       after |-> <<path>>, ret |-> 0, out |-> <<>>]
    /\ UNCHANGED <<cfg, ctl, conv, reason, l0cache, locals, obs,
                   sent_type_ascii_guidance, mon, lock, thr>>

\* A supervisor request is between its paused test and its answer.
ExecRunning == call.op = "exec" /\ call.ret = 0

\* find_window, capture, activate_app: the screenshot, or an exception and
\* the answer 500
ExecCapture ==
    /\ ExecRunning
    /\ call.before = <<>>
    /\ \/ call' = [call EXCEPT !.before = <<"shot">>]
       \/ call' = [call EXCEPT !.op = "exec_done", !.ret = 500]
    /\ UNCHANGED <<cfg, ctl, conv, reason, l0cache, locals, obs,
                   sent_type_ascii_guidance, mon, lock, thr>>

\* The loop over the list goes on after the results so far (script/run
\* breaks at the first failure).
ExecGoesOn(c) ==
    /\ Len(c.out) < c.arg
    /\ ~ (c.after = <<"script_run">> /\ c.out # <<>> /\ ~ c.out[Len(c.out)])

\* for p in preds[:max_actions]: res = execute_action(...): one iteration
ExecAction ==
    /\ ExecRunning
    /\ call.before # <<>>
    /\ ExecGoesOn(call)
    /\ \E ok \in BOOLEAN : call' = [call EXCEPT !.out = Append(@, ok)]
    /\ UNCHANGED <<cfg, ctl, conv, reason, l0cache, locals, obs,
                   sent_type_ascii_guidance, mon, lock, thr>>

\* publish, log, and the answer 200 with the results
ExecReturn ==
    /\ ExecRunning
    /\ call.before # <<>>
    /\ ~ ExecGoesOn(call)
    /\ call' = [call EXCEPT !.op = "exec_done", !.ret = 200]
    /\ UNCHANGED <<cfg, ctl, conv, reason, l0cache, locals, obs,
                   sent_type_ascii_guidance, mon, lock, thr>>

Supervisor ==
    \/ PostExec
    \/ ExecCapture
    \/ ExecAction
    \/ ExecReturn

\* The cache off: every action of the loop is a live one.
InitExec ==
    /\ cfg \in {c \in ShortConfig : DefaultSwitches(c) /\ ~ c.l0_enable}
    /\ Constructed

NextExec ==
    \/ Launch
    \/ LoopTop
    \/ PauseGate
    \/ PauseTick
    \/ DrainAndCount
    \/ Capture
    \/ Decide
    \/ LiveAction
    \/ PostStep
    \/ RecordStep
    \/ Control
    \/ Supervisor

SpecExec == InitExec /\ [][NextExec]_vars

\* ------------------------------------------------- executing a script file
\* maybe_rewrite_hotkey: the key of hotkey(key="...") with its blanks
\* collapsed; "cmd 1" and "cmd 2" become the iPhone actions.
HotkeyKey(raw) ==
    IF Len(raw) >= 7 /\ SubSeq(raw, 1, 5) = <<"hotkey", LP, "key", EQ, DQ>>
    THEN SelectSeq(SubSeq(raw, 6, Len(raw) - 2), LAMBDA x : x # SP)
    ELSE <<>>

maybe_rewrite_hotkey(action_type, raw) ==
    IF action_type # "hotkey" \/ HotkeyKey(raw) = <<>> THEN action_type
    ELSE IF HotkeyKey(raw) \in {<<"cmd", "1">>, <<"command", "1">>} THEN "iphone_home"
    ELSE IF HotkeyKey(raw) \in {<<"cmd", "2">>, <<"command", "2">>}
    THEN "iphone_app_switcher"
    ELSE action_type

\* The action types of the if/elif chain inside the try block.
DeviceActions ==
    {"click", "left_double", "double_click", "doubleclick", "dblclick",
     "right_single", "drag", "scroll", "hotkey", "type", "sleep", "wait"}

ExecResult(t, ok, skipped, error) ==
    [action_type |-> t, ok |-> ok, skipped |-> skipped, error |-> error]

UNSUPPORTED == "unsupported action_type"

\* execute_action by its branches: t is the action type after the rewrite,
\* device_ok whether the input call of a device branch returns.
ExecuteBranch(t, dry_run, device_ok) ==
    IF t \in {"finished", "call_user", "error_env"} THEN ExecResult(t, TRUE, "terminal", "")
    ELSE IF dry_run THEN ExecResult(t, TRUE, "dry_run", "")
    ELSE IF t \in {"iphone_home", "iphone_app_switcher"} THEN ExecResult(t, TRUE, "", "")
    ELSE IF t \in DeviceActions
    THEN ExecResult(t, device_ok, "", IF device_ok THEN "" ELSE "failed")
    ELSE ExecResult(t, FALSE, "", UNSUPPORTED)

\* execute_action on a parsed action of a script
execute_parsed(pred, dry_run, device_ok) ==
    ExecuteBranch(maybe_rewrite_hotkey(pred.action_type[1], pred.raw_action),
                  dry_run, device_ok)

\* max_expand_depth=8 of the command line's expansion
CLI_EXPAND_DEPTH == 8

\* The device refuses the action at position fail_at of the list (0: none),
\* for fail_at up to MaxFail.
MaxFail == 2

\* for p in preds: res = execute_action(...); results.append(res);
\* if not ok and not keep_going: break
RECURSIVE RunActions(_, _, _, _, _, _)
RunActions(preds, i, dry_run, keep_going, fail_at, results) ==
    IF i > Len(preds) THEN results
    ELSE IF execute_parsed(preds[i], dry_run, i # fail_at).ok \/ keep_going
    THEN RunActions(preds, i + 1, dry_run, keep_going, fail_at,
                    Append(results, execute_parsed(preds[i], dry_run, i # fail_at)))
    ELSE Append(results, execute_parsed(preds[i], dry_run, i # fail_at))

\* cmd_script_run from the expansion on: the exit code and the results.
RunExpanded(r, dry_run, keep_going, fail_at) ==
    IF r.raised # "" THEN [code |-> 2, results |-> <<>>]
    ELSE [code |-> 0, results |-> RunActions(r.calls, 1, dry_run, keep_going, fail_at, <<>>)]

\* cmd_script_run from the compilation on.
RunCompiled(c, dry_run, keep_going, fail_at) ==
    IF c.raised # "" THEN [code |-> 2, results |-> <<>>]
    ELSE RunExpanded(expand_special_predictions(c.calls, CLI_EXPAND_DEPTH),
                     dry_run, keep_going, fail_at)

ScriptRunCall(text, opts, r) ==
    [op |-> "script_run", arg |-> opts, before |-> text, after |-> <<>>,
     ret |-> r.code, out |-> r.results]

\* The scripts run from the command line: the compiled texts, and
\* hotkey cmd 2 | include f
RunTexts ==
    ScriptTexts \cup {<<"hotkey", SP, "cmd", SP, "2">>, <<"include", SP, "f">>}

\* python -m iphoneclaw script run --file ... [--dry-run] [--keep-going]
CmdScriptRun ==
    /\ call = NoCall
    /\ \E text \in RunTexts, dry_run \in BOOLEAN, keep_going \in BOOLEAN,
          fail_at \in 0..MaxFail :
         call' = ScriptRunCall(text,
                   [dry_run |-> dry_run, keep_going |-> keep_going, fail_at |-> fail_at],
                   RunCompiled(script_to_predictions(text, NoVars, NoVars),
                               dry_run, keep_going, fail_at))
    /\ UNCHANGED <<cfg, ctl, conv, reason, l0cache, locals, obs,
                   sent_type_ascii_guidance, mon, lock, thr>>

SpecScriptRun == InitScript /\ [][CmdScriptRun]_vars

\* =================================================================== claims
\* The statuses the spec calls final.
FinalStatuses == {END, CALL_USER, USER_STOPPED, ERROR}

\* Length of the run of equal entries that ends the sequence h.
TrailingRun(h) ==
    IF h = <<>> THEN 0
    ELSE Cardinality({k \in 1..Len(h) : \A j \in k..Len(h) : h[j] = h[Len(h)]})

\* No entry of a result list follows an entry with ok = FALSE.
HaltsAtFailure(results) == \A i \in 1..Len(results) - 1 : results[i].ok

\* C1 (as stated): when an executed action of a step reports ok = FALSE, none
\* of the actions after it in the step's list is executed, in live execution
\* and in cache replay alike: no result of a step follows a failed result.
C1_FailureHaltsStep ==
    /\ HaltsAtFailure(exec_results)
    /\ HaltsAtFailure(l0_exec_results)

\* C2 (as stated): with auto_pause_on_repeat_action enabled, whenever the
\* streak of identical signatures reaches repeat_action_streak_threshold, the
\* action that completed it set HANG and paused, whether it was executed by
\* replay or live.
C2_RepeatGuardEveryExecution ==
    (cfg.auto_pause_on_repeat_action
        /\ repeat_streak >= repeat_action_streak_threshold)
    => obs.hangedAtExec

\* C3: after any sequence of replayed and live actions the streak counter k
\* is the length of the run of identical signatures that ends the executed
\* sequence (1 after a change of signature, one more after each repetition),
\* and last_sig is the signature executed last; so the counter reaches the
\* threshold only after that many consecutive identical signatures.
C3_StreakIsTrailingRun ==
    LET h == obs.hist
        t == TrailingRun(h)
    IN /\ (h = <<>>) <=> (repeat_streak = 0)
       /\ h # <<>> => last_sig = h[Len(h)]
       /\ IF t < Len(h) \/ Len(h) < HistWindow
          THEN repeat_streak = t
          ELSE repeat_streak >= t

\* C3 witness: a replayed action has just repeated the signature executed
\* before it, after an earlier change of signature.
C3_Witness ==
    /\ pc = "verify"
    /\ l0_exec_results # <<>>
    /\ repeat_streak = 2
    /\ Len(obs.hist) >= 3

\* A step that ends at the parse-error check (its `continue`).
ParseErrorStepEnds == pc = "decide" /\ pc' = "top"

\* C4 (amended): at the third of three consecutive steps whose reply yields
\* no action other than error_env the loop sets HANG with reason
\* parse_error_streak and sets paused, and the step executes no action of a
\* reply (a cache replay that failed verification earlier in such a step may
\* have executed its cached actions).
C4_ThirdParseErrorHangs ==
    [][(ParseErrorStepEnds /\ obs'.errRun >= PARSE_ERR_LIMIT) =>
         (/\ status' = HANG
          /\ paused'
          /\ reason' = "parse_error_streak"
          /\ exec_results = <<>>)]_vars

\* C4 (as stated): ... and no action is executed in any of those three steps.
C4_NothingExecutedInErrorSteps ==
    [][(ParseErrorStepEnds /\ obs'.errRun >= PARSE_ERR_LIMIT) =>
         (/\ status' = HANG
          /\ paused'
          /\ reason' = "parse_error_streak"
          /\ ~ obs'.errExec)]_vars

\* C4 witness: the third consecutive parse-error step has just ended in HANG,
\* and a cache replay executed an action in one of the three steps.
C4_Witness ==
    /\ pc = "top"
    /\ obs.errRun = PARSE_ERR_LIMIT
    /\ status = HANG
    /\ paused
    /\ reason = "parse_error_streak"
    /\ obs.errExec

\* C5 (amended): once stopped is set the loop starts at most one further
\* step, and USER_STOPPED is set only with stopped set and ends the run; if
\* stop is requested while the loop sleeps in the pause gate, or while it
\* waits in the gate with paused set and no resume request follows, the run
\* ends in USER_STOPPED and no step is started.
C5_StopBoundsTheRun ==
    /\ obs.startsAfterStop <= 1
    /\ status = USER_STOPPED => (stopped /\ pc = "done")
    /\ obs.stopAt \in {"sleep", "gate"} =>
          /\ obs.startsAfterStop = 0
          /\ pc = "done" => status = USER_STOPPED

\* C5 (as stated): if the loop is waiting in the pause gate when stop is
\* requested, it ends in USER_STOPPED without starting a step.
C5_StopInGateStartsNothing ==
    /\ obs.startsAfterStop <= 1
    /\ status = USER_STOPPED => (stopped /\ pc = "done")
    /\ obs.stopAt \in {"sleep", "gate", "gate_resumed"} =>
          /\ obs.startsAfterStop = 0
          /\ pc = "done" => status = USER_STOPPED

\* C5 witness: stop was requested while the loop waited in the gate, and the
\* run has ended.
C5_Witness ==
    /\ obs.stopAt = "gate"
    /\ pc = "done"
    /\ obs.started >= 1

\* C6: pause takes effect at a step boundary.  A live action loop that was
\* not cut by a terminal action or the repeat guard has executed every action
\* of its list when it ends, and a replay that met no failure has replayed
\* every cached action, whatever pause requests arrived meanwhile; the loop
\* leaves the pause gate towards a new step only after a read of paused that
\* saw it cleared, and sleeps after a read that saw it set.
C6_PauseAtStepBoundary ==
    /\ (pc = "post" /\ obs.cut = "none") => Len(exec_results) = Len(non_err)
    /\ (pc = "verify" /\ l0_exec_ok) =>
           Len(l0_exec_results) = Len(l0_entry.actions)
    /\ pc = "inject" => obs.gate = "pass"
    /\ pc = "tick" => obs.gate = "wait"

\* C6 witness: a pause request arrived during a step of two actions, and both
\* have been executed.
C6_Witness ==
    /\ pc = "post"
    /\ paused
    /\ status = RUNNING
    /\ obs.cut = "none"
    /\ Len(exec_results) = 2

\* C7: once the status is final the loop thread does nothing more: no
\* capture, lookup, decision call, execution or conversation append follows,
\* under every interleaving with control requests.
C7_FinalStatusIsFinal ==
    [][(status \in FinalStatuses) =>
         (UNCHANGED <<locals, conv, l0cache, status, reason>>
             /\ obs'.started = obs.started)]_vars

\* C7 witness: the run has ended with END and a pause request has been served
\* afterwards.
C7_Witness ==
    /\ pc = "done"
    /\ status = END
    /\ paused

\* C8: the loop starts at most max_loop_count steps; every increment of the
\* step counter but the one past the ceiling starts a step (one capture),
\* whatever kind of step it is; the iteration that would start step
\* max_loop_count + 1 sets ERROR and ends the run with nothing captured.
C8_StepCeiling ==
    /\ obs.started <= cfg.max_loop_count
    /\ obs.started =
         step - (IF pc = "capture" \/ reason = "max_loop_count" THEN 1 ELSE 0)
    /\ reason = "max_loop_count" =>
          /\ status = ERROR
          /\ pc = "done"
          /\ obs.started = cfg.max_loop_count

\* C8 witness: the ceiling ended the run after max_loop_count started steps.
C8_Witness ==
    /\ reason = "max_loop_count"
    /\ status = ERROR
    /\ obs.started = cfg.max_loop_count

\* Position of the first finished / call_user action of a list (0: none).
FirstTerminal(l) ==
    LET at == {k \in 1..Len(l) : l[k].action_type \in {"finished", "call_user"}}
    IN IF at = {} THEN 0 ELSE CHOOSE k \in at : \A j \in at : k <= j

\* The live action loop handles a finished / call_user action.
TerminalReached ==
    /\ pc = "act"
    /\ non_err[Len(exec_results) + 1].action_type \in {"finished", "call_user"}
    /\ pc' # "act"

\* C9 (amended): when the live action loop reaches a finished (call_user)
\* action, it is the first one of the list, the actions before it have been
\* executed in order and none after it is executed; with hang_on_finished
\* (hang_on_call_user) false the loop sets END (CALL_USER) and ends the run,
\* with it true the loop sets HANG and paused and ends the step only.
C9_TerminalActionReached ==
    [][TerminalReached =>
         LET k == Len(exec_results) + 1
             t == non_err[k].action_type
             hangs == IF t = "finished" THEN cfg.hang_on_finished
                      ELSE cfg.hang_on_call_user
         IN /\ k = FirstTerminal(non_err)
            /\ \A j \in 1..(k - 1) :
                  exec_results[j].raw_action = non_err[j].raw_action
            /\ exec_results' = exec_results
            /\ IF hangs
               THEN status' = HANG /\ paused' /\ pc' = "post"
               ELSE /\ status' = IF t = "finished" THEN END ELSE CALL_USER
                    /\ pc' = "done"]_vars

\* C9 (as stated): when a live step's action list contains finished
\* (call_user), the step ends at that action: with the end of the run, or
\* with HANG, as the switch says, the actions before it executed and none
\* after it.
C9_ListWithTerminalEndsThere ==
    (pc \in {"post", "done"} /\ FirstTerminal(non_err) > 0) =>
        LET k == FirstTerminal(non_err)
            t == non_err[k].action_type
            hangs == IF t = "finished" THEN cfg.hang_on_finished
                     ELSE cfg.hang_on_call_user
        IN /\ obs.cut = "terminal"
           /\ Len(exec_results) = k - 1
           /\ IF hangs
              THEN pc = "post" /\ status = HANG /\ reason = t
              ELSE pc = "done" /\ status = IF t = "finished" THEN END ELSE CALL_USER

\* C9 witness: a finished / call_user action in the middle of a list of three
\* has ended the step in HANG after the one action before it.
C9_Witness ==
    /\ pc = "post"
    /\ obs.cut = "terminal"
    /\ status = HANG
    /\ Len(non_err) = 3
    /\ Len(exec_results) = 1

\* The cache lookup missed, or the replay was not verified: the step falls
\* through to the live cycle.
FallsThrough == pc \in {"capture", "verify"} /\ pc' = "decide"

\* C10: a step whose replay is verified makes no decision call and appends
\* nothing to the conversation; after a miss or an unverified replay the loop
\* is at the decision call of the same step or has made it, and the fall
\* through itself changes neither status nor paused.
C10_CacheHitOrLiveCycle ==
    /\ [](obs.l0 = "verified" => (obs.decided = 0 /\ obs.appended = 0))
    /\ [](obs.l0 \in {"miss", "failed"} => (pc = "decide" \/ obs.decided = 1))
    /\ [][FallsThrough => UNCHANGED <<status, paused, reason>>]_vars

\* C10 witness: a replay failed verification and the same step has called
\* the decision source and is executing its actions.
C10_Witness ==
    /\ obs.l0 = "failed"
    /\ l0_exec_results # <<>>
    /\ obs.decided = 1
    /\ pc = "act"

\* The cache gets a new entry for some screen.
Recording ==
    \E s \in Screens : l0cache'[s] # l0cache[s] /\ l0cache'[s] # NoEntry

\* What holds of every step that records a cache entry.
RecordedStepIsLiveSuccess ==
    /\ pc = "record"
    /\ obs.decided = 1
    /\ obs.cut = "none"
    /\ exec_results # <<>>
    /\ \A i \in 1..Len(exec_results) : exec_results[i].ok
    /\ should_cache_actions(non_err)
    /\ status # HANG
    /\ \A s \in Screens :
          l0cache'[s] # l0cache[s] => l0cache'[s].actions = non_err

\* C11 (amended): a cache entry is recorded only at the end of a live step
\* in which at least one action was executed, every executed action reported
\* ok, the list passed should_cache_actions and the check after the action
\* loop found paused clear and the status not HANG; what is recorded is the
\* live list, never the actions of a replay.
C11_RecordOnlyLiveSuccess ==
    [][Recording => RecordedStepIsLiveSuccess]_vars

\* C11 (as stated): ... and the loop was not paused during the step.
C11_NeverRecordsWhilePaused ==
    [][Recording => (RecordedStepIsLiveSuccess /\ ~paused)]_vars

\* C11 witness: a live step of two actions has been recorded, and a pause
\* request was served during it.
C11_Witness ==
    /\ pc = "top"
    /\ l0cache["s1"].actions = <<TapA, TapB>>
    /\ paused
    /\ status = RUNNING

\* An exception reaches the handler of Worker.run.
ExceptionCaught == reason # "exception" /\ reason' = "exception"

ObserverPauses == mon = "checked" /\ mon' = "idle"

\* C13: under every interleaving the observer sets paused only while the
\* status is RUNNING and stop has not been requested.
C13_ObserverPausesOnlyWhileRunning ==
    [][ObserverPauses => (status = RUNNING /\ ~stopped)]_vars

Guidance == ConversationItem("user", "guidance")

AssistantCount(c) == Cardinality({i \in 1..Len(c) : c[i].role = "assistant"})

\* No two guidance items without an assistant item between them.
OneGuidancePerRound(c) ==
    \A i, j \in 1..Len(c) :
        (i < j /\ c[i] = Guidance /\ c[j] = Guidance) =>
            \E k \in (i + 1)..(j - 1) : c[k].role = "assistant"

\* C14: the iteration's step from the drain point pops the pending injection
\* and appends it, if there was one, as a single user item at the end of the
\* conversation, going on to the step ceiling and the capture; no other step
\* of the loop consumes an injection or appends guidance; assistant items are
\* appended only by the decision call, later in the iteration. So with the
\* cache disabled (every step has a decision call) the guidance items are
\* separated by assistant items, and while the step drained in this iteration
\* waits for its capture or decision the guidance is the last item.
C14_OneInjectionDrainedPerIteration ==
    /\ [][(pc = "inject" /\ pc' # "inject") =>
            /\ ~pending'
            /\ conv' = IF pending THEN Append(conv, Guidance) ELSE conv
            /\ step' = step + 1
            /\ pc' \in {"capture", "done"}
            /\ obs.gate = "pass"]_vars
    /\ [][(pc # "inject" \/ pc' = "inject") =>
            /\ pending => pending'
            /\ conv' # conv => (Len(conv') > 0 /\ conv'[Len(conv')] # Guidance)]_vars
    /\ [][(AssistantCount(conv') # AssistantCount(conv)) =>
            (pc = "decide" /\ conv' = Append(conv, ConversationItem("assistant", "reply")))]_vars
    /\ [](~cfg.l0_enable => OneGuidancePerRound(conv))

\* C14 witness: the second step's decision call has appended its assistant
\* item after a guidance item drained in its iteration, which follows the
\* first step's assistant item and an earlier guidance item.
C14_Witness ==
    /\ Len(conv) = 6
    /\ conv[3] = Guidance
    /\ conv[4].role = "assistant"
    /\ conv[5] = Guidance
    /\ conv[6].role = "assistant"
    /\ step = 2

Constraint == ConversationItem("user", "constraint")

ConstraintCount(c) == Cardinality({i \in 1..Len(c) : c[i] = Constraint})

\* The live loop has executed a type action whose content is not ASCII.
TypeRejected ==
    /\ pc = "act"
    /\ Len(exec_results') = Len(exec_results) + 1
    /\ non_err[Len(exec_results) + 1].action_type = "type"
    /\ ~isascii(Content(non_err[Len(exec_results) + 1]))

\* The repeat guard has hung the run at the action just executed.
RepeatGuardTripped == obs'.cut = "repeat"

\* C15: a type action rejected for non-ASCII content gets ok = false, causes
\* no ERROR and leaves the loop in its action list or at the end of the step;
\* unless the repeat guard hangs the run at that very action, the loop appends
\* the corrective guidance if it has not been appended in this run, and sets
\* the flag; the conversation holds the guidance at most once, exactly when
\* the flag is set.
C15_AsciiGuidanceOnceUnlessRepeatHang ==
    /\ [][TypeRejected =>
            /\ ~exec_results'[Len(exec_results')].ok
            /\ status' # ERROR
            /\ pc' \in {"act", "post"}
            /\ IF RepeatGuardTripped
               THEN status' = HANG /\ conv' = conv
                    /\ sent_type_ascii_guidance' = sent_type_ascii_guidance
               ELSE /\ status' = status
                    /\ sent_type_ascii_guidance'
                    /\ conv' = IF sent_type_ascii_guidance THEN conv
                               ELSE Append(conv, Constraint)]_vars
    /\ [](ConstraintCount(conv) <= 1)
    /\ [](sent_type_ascii_guidance <=> ConstraintCount(conv) = 1)

\* C15 as stated: the first rejected type action of a run always gets the
\* corrective guidance appended.
C15_FirstRejectionAppendsGuidance ==
    [][(TypeRejected /\ ~sent_type_ascii_guidance) =>
            conv' = Append(conv, Constraint)]_vars

\* C15 witness: three type actions were rejected in two steps of one run, the
\* guidance was appended once, after the first, and the run goes on.
C15_Witness ==
    /\ step = 2
    /\ pc = "post"
    /\ exec_results = <<Result(TypeAccent, FALSE)>>
    /\ Len(conv) = 5
    /\ conv[4] = Constraint
    /\ conv[5].role = "assistant"
    /\ ConstraintCount(conv) = 1
    /\ status = RUNNING
    /\ obs.hist = <<Sig(TypeHan), Sig(TypeHan), Sig(TypeAccent)>>

\* Positions of the assistant items of a log.
AssistantAt(b) == {i \in 1..Len(b) : b[i].role = "assistant"}

\* The n most recent of them.
LastAssistants(b, n) ==
    {i \in AssistantAt(b) : Cardinality({j \in AssistantAt(b) : j > i}) < n}

\* Those and, for each, the position before it when a user item is there.
RoundsAt(b, n) ==
    LastAssistants(b, n) \cup
        {i - 1 : i \in {k \in LastAssistants(b, n) : k > 1 /\ b[k - 1].role = "user"}}

\* The log without the items at the positions in gone, the rest in order.
Without(b, gone) == SelectSeq(b, LAMBDA it : it \notin {b[i] : i \in gone})

\* C16: trim_tail_rounds(N) with N >= 1 on a log of M >= N assistant items
\* leaves the log without its N most recent assistant items and without the
\* user item directly before each of them, everything else in its order; no
\* system item goes, and the call returns the number of items removed.
C16_TrimRemovesLastRounds ==
    (call.op = "trim" /\ call.arg >= 1
        /\ Cardinality(AssistantAt(call.before)) >= call.arg) =>
    /\ call.after = Without(call.before, RoundsAt(call.before, call.arg))
    /\ call.ret = Cardinality(RoundsAt(call.before, call.arg))
    /\ call.ret = Len(call.before) - Len(call.after)
    /\ Cardinality(LastAssistants(call.before, call.arg)) = call.arg
    /\ \A i \in 1..Len(call.before) :
         call.before[i].role = "system" =>
            \E j \in 1..Len(call.after) : call.after[j] = call.before[i]

\* C16 witness: two rounds were trimmed from a log of three assistant items
\* whose first item is a user item; one user item went with them.
C16_Witness ==
    /\ call.op = "trim"
    /\ call.arg = 2
    /\ Len(call.before) = 4
    /\ call.before[1].role = "user"
    /\ call.before[2].role = "assistant"
    /\ call.before[3].role = "assistant"
    /\ call.before[4].role = "assistant"
    /\ call.after = <<call.before[1], call.before[2]>>
    /\ call.ret = 2

\* The positions in log c of the item it, none when it is gone.
PlaceIn(c, it) == {j \in 1..Len(c) : c[j] = it}

\* C17: after any trim_tail_rounds call, a user item that was directly
\* followed by an assistant item is either still there with that assistant
\* item directly after it, or both are gone.
C17_TrimKeepsPairsTogether ==
    call.op = "trim" =>
    \A i \in 1..(Len(call.before) - 1) :
        (call.before[i].role = "user" /\ call.before[i + 1].role = "assistant") =>
            \/ /\ PlaceIn(call.after, call.before[i]) = {}
               /\ PlaceIn(call.after, call.before[i + 1]) = {}
            \/ \E j \in 1..(Len(call.after) - 1) :
                  /\ call.after[j] = call.before[i]
                  /\ call.after[j + 1] = call.before[i + 1]

\* C17 witness: one round was trimmed from a log of two user/assistant
\* pairs; the first pair stayed, the second went.
C17_Witness ==
    /\ call.op = "trim"
    /\ call.arg = 1
    /\ Len(call.before) = 4
    /\ call.before[1].role = "user"
    /\ call.before[2].role = "assistant"
    /\ call.before[3].role = "user"
    /\ call.before[4].role = "assistant"
    /\ call.after = <<call.before[1], call.before[2]>>

Min(a, b) == IF a <= b THEN a ELSE b

\* w is the suffix of b that starts at position k.
SuffixFrom(b, w, k) == w = SubSeq(b, k, Len(b))

\* C18: for n >= 0 the window of the last n rounds is a suffix of the log
\* with exactly min(n, A) assistant items, starting at its earliest assistant
\* item or at the user item directly before that one; the whole log when
\* A < n.
C18_WindowHoldsMinRounds ==
    call.op = "window" =>
    LET b == call.before
        w == call.out
        A == Cardinality(AssistantAt(b))
    IN /\ \E k \in 1..(Len(b) + 1) : SuffixFrom(b, w, k)
       /\ Cardinality(AssistantAt(w)) = Min(call.arg, A)
       /\ A < call.arg => w = b
       /\ (A >= call.arg /\ call.arg >= 1) =>
             \E k \in LastAssistants(b, call.arg) :
                /\ \A j \in LastAssistants(b, call.arg) : k <= j
                /\ SuffixFrom(b, w, IF k > 1 /\ b[k - 1].role = "user"
                                    THEN k - 1 ELSE k)

\* The most recent system item of a log, as a log of one item; the empty log
\* when there is none.
LastSystemOnly(b) ==
    IF \E i \in 1..Len(b) : b[i].role = "system"
    THEN <<b[CHOOSE i \in 1..Len(b) :
                /\ b[i].role = "system"
                /\ \A j \in (i + 1)..Len(b) : b[j].role # "system"]>>
    ELSE <<>>

\* C19: clear(keep_last_system=True) leaves exactly the most recent system
\* item, or nothing when the log held none; clear(keep_last_system=False)
\* leaves nothing; the call returns the number of items removed, 0 on an
\* empty log.
C19_ClearLeavesLastSystem ==
    call.op = "clear" =>
    /\ call.arg = 1 => call.after = LastSystemOnly(call.before)
    /\ call.arg = 0 => call.after = <<>>
    /\ call.ret = Len(call.before) - Len(call.after)
    /\ call.before = <<>> => call.ret = 0
    /\ conv = call.after

\* C19 witness: a log with two system items was cleared keeping the last
\* system item; three items were removed.
C19_Witness ==
    /\ call.op = "clear"
    /\ call.arg = 1
    /\ Len(call.before) = 4
    /\ call.before[1].role = "system"
    /\ call.before[3].role = "system"
    /\ call.before[4].role = "assistant"
    /\ call.after = <<call.before[3]>>
    /\ call.ret = 3

\* The position of an item's text in ItemText: starting items come first,
\* added items follow in the order of the add calls.
TextOrder(it) == CHOOSE n \in 1..12 : ItemText(n) = it.text

\* The thread of call k is inside the with block.
Inside(k) == k \in 1..Len(thr) /\ thr[k].pc \in {"in", "out"}

\* C20, what a store call that has returned did: it acted on the log as it
\* was when the call took the lock, as the call alone would have.
ReturnedCallIsAtomic ==
    /\ call.op = "add" =>
          (Len(call.after) = Len(call.before) + 1
             /\ SubSeq(call.after, 1, Len(call.before)) = call.before
             /\ \E k \in 1..Len(thr) :
                   thr[k].op = "add" /\ thr[k].item = call.after[Len(call.after)])
    /\ call.op = "window" =>
          (call.after = call.before
             /\ call.out = tail_items_by_rounds(call.before, call.arg))
    /\ call.op = "clear" =>
          (call.after = clear(call.before, call.arg = 1).items
             /\ call.ret = clear(call.before, call.arg = 1).ret)
    /\ call.op = "trim" =>
          (call.after = trim_tail_rounds(call.before, call.arg).items
             /\ call.ret = trim_tail_rounds(call.before, call.arg).ret)

\* C20: under every interleaving of add, window, clear and trim calls, at
\* most one call is inside the store's critical section and it holds the
\* lock; the log changes only by a step of the call that holds the lock, and
\* items leave it only by a clear or trim call; the log never holds an item
\* twice and keeps the items in the order of their add calls; every call
\* that returns has acted atomically (a window is cut from the log as it was
\* at one instant); and every call that waits for the lock returns.
C20_StoreCallsAreAtomic ==
    /\ [](\A k \in 1..MaxOps : Inside(k) => lock = ThreadName(k))
    /\ [][conv' # conv =>
            \E k \in 1..Len(thr) :
               /\ lock = ThreadName(k) /\ thr[k].pc = "in"
               /\ thr'[k] # thr[k]
               /\ (\E i \in 1..Len(conv) : \A j \in 1..Len(conv') : conv'[j] # conv[i])
                     => thr[k].op \in {"clear", "trim"}]_vars
    /\ [](\A i, j \in 1..Len(conv) : i < j => TextOrder(conv[i]) < TextOrder(conv[j]))
    /\ []ReturnedCallIsAtomic
    /\ \A k \in 1..MaxOps :
          (k <= Len(thr) /\ thr[k].pc = "want") ~> (k <= Len(thr) /\ thr[k].pc = "done")

\* C20 witness: a trim of two rounds has returned after walking the log in
\* two steps while an add call and a window call of other threads waited for
\* the lock.
C20_Witness ==
    /\ call.op = "trim"
    /\ call.arg = 2
    /\ call.ret = 2
    /\ Len(call.before) = 2
    /\ call.after = <<>>
    /\ lock = "free"
    /\ \E a, w \in 1..Len(thr) :
          /\ thr[a].op = "add" /\ thr[a].pc = "want"
          /\ thr[w].op = "window" /\ thr[w].pc = "want"


\* The loop leaves the pause gate of the iteration that follows a finished
\* or call_user action answered with HANG (the operator has resumed).
ConfirmedTerminal ==
    /\ pc = "inject"
    /\ pc' # "inject"
    /\ obs.cut = "terminal"
    /\ reason \in {"finished", "call_user"}
    /\ ~ stopped

\* C30: after a finished (call_user) action was answered with HANG because
\* hang_on_finished (hang_on_call_user) is set, and the operator has resumed,
\* the run ends with END (CALL_USER) without starting another step.
C30_ConfirmedTerminalEndsRun ==
    [][ConfirmedTerminal =>
         (/\ pc' = "done"
          /\ status' = IF reason = "finished" THEN END ELSE CALL_USER)]_vars


\* The parse-error check of a step has just set HANG with reason
\* parse_error_streak and paused.
EntersParseErrorHang ==
    /\ ParseErrorStepEnds
    /\ ~ paused
    /\ paused'
    /\ status' = HANG
    /\ reason' = "parse_error_streak"

\* C29: the loop enters HANG with reason parse_error_streak only when each of
\* the three most recent steps produced no action other than error_env; a
\* step in between that executed actions, live or a verified cache replay,
\* restarts the count.
C29_HangOnlyAfterThreeErrorSteps ==
    [][EntersParseErrorHang => obs'.errRun >= PARSE_ERR_LIMIT]_vars


\* C27: parse_predictions returns a non-empty list for every input text (one
\* error_env action for a text without any action).
C27_ParseNeverEmpty ==
    call.op = "parse_predictions" => call.out # <<>>

\* The statements of an action section as its text reads: split at `;` and
\* newline outside parentheses and outside quoted strings, where a backslash
\* inside a string escapes the character after it.
RECURSIVE StatementWalk(_, _, _, _, _)
StatementWalk(rest, quote, depth, buf, out) ==
    IF rest = <<>> THEN Flush(buf, out)
    ELSE LET ch == Head(rest)
             r == Tail(rest)
         IN IF quote # NoQuote /\ ch = BS /\ r # <<>>
            THEN StatementWalk(Tail(r), quote, depth, buf \o <<ch, Head(r)>>, out)
            ELSE IF quote # NoQuote
            THEN StatementWalk(r, IF ch = quote THEN NoQuote ELSE quote, depth,
                               Append(buf, ch), out)
            ELSE IF ch \in {SQ, DQ}
            THEN StatementWalk(r, ch, depth, Append(buf, ch), out)
            ELSE IF ch = LP
            THEN StatementWalk(r, quote, depth + 1, Append(buf, ch), out)
            ELSE IF ch = RP
            THEN StatementWalk(r, quote, IF depth > 0 THEN depth - 1 ELSE 0,
                               Append(buf, ch), out)
            ELSE IF depth = 0 /\ ch \in {SEMI, NL}
            THEN StatementWalk(r, quote, depth, <<>>, Flush(buf, out))
            ELSE StatementWalk(r, quote, depth, Append(buf, ch), out)

Statements(text) == StatementWalk(ActionStr(text), NoQuote, 0, <<>>, <<>>)

\* C28: parse_predictions never raises; it returns one action per top-level
\* statement of the last Action section, in order, each with the statement's
\* raw text; a statement that cannot be parsed is an error_env action with a
\* diagnostic at its position, the others have the type their call names.
C28_OneActionPerStatement ==
    call.op = "parse_predictions" =>
        /\ call.ret = ""
        /\ ActionStr(call.before) # <<>> =>
             LET st == Statements(call.before)
             IN /\ Len(call.out) = Len(st)
                /\ \A i \in 1..Len(st) :
                      /\ call.out[i].raw_action = st[i]
                      /\ IF parse_action_call(st[i]).raised # ""
                         THEN /\ call.out[i].action_type = ERROR_ENV
                              /\ call.out[i].diag = "parse error"
                         ELSE call.out[i].action_type = parse_action_call(st[i]).func

\* The function name an action-call string starts with.
CallName(c) == SubSeq(c, 1, WordLen(c))

\* C21: expanding script a, which includes script b, which includes a, fails
\* with the circular-include error that names the chain a -> b -> a, for
\* every max_expand_depth (the default 2 of the worker loop among them).
C21_CycleReportedAtEveryDepth ==
    (call.op = "expand_special_predictions" /\ call.before = <<"include", SP, "a">>) =>
        /\ call.ret = "ScriptParseError"
        /\ call.after.msg = CIRCULAR
        /\ call.after.chain = <<<<"a">>, <<"b">>, <<"a">>>>

\* C22: a compilation that succeeds gives, in order, one action for every
\* action call the statements of the script compiled to: no statement is
\* silently dropped.
C22_NoStatementDropped ==
    (call.op = "script_to_predictions" /\ call.ret = "") =>
        LET compiled == script_to_action_calls(call.before, call.arg.vars,
                                               call.arg.environ).calls
        IN /\ Len(call.out) = Len(compiled)
           /\ \A i \in 1..Len(compiled) : call.out[i].action_type = CallName(compiled[i])

\* C23: for every keyword command and every N, "<command> x N" compiles to
\* exactly N copies of what "<command>" alone compiles to (none for N <= 0).
C23_RepetitionCopiesTheCommand ==
    \A cmd \in RepCommands, n \in Numerals \ {"50"} :
        (call.op = "script_to_action_calls" /\ call.before = WithSuffix(cmd, n)) =>
            LET alone == script_to_action_calls(cmd, NoVars, NoVars)
            IN alone.raised = "" =>
                 /\ call.ret = ""
                 /\ call.out = Times(alone.calls, IntOf(n))

\* C24: no exception other than ScriptParseError leaves script_to_action_calls,
\* script_to_predictions or expand_special_predictions.
C24_OnlyScriptParseError ==
    call.op \in {"script_to_action_calls", "script_to_predictions",
                 "expand_special_predictions"}
        => call.ret \in {"", "ScriptParseError"}

\* C25: the action-call strings of a script that compiles, joined and parsed
\* again by parse_predictions, give exactly one action per call string, none
\* of type error_env, of the types of the calls in order.
C25_CallsParseBackOneToOne ==
    (call.op = "script_to_action_calls" /\ call.ret = "" /\ call.out # <<>>) =>
        LET again == parse_predictions(<<ACTION_MARK, SP>> \o Join(call.out, <<NL>>)).preds
        IN /\ Len(again) = Len(call.out)
           /\ \A i \in 1..Len(call.out) :
                /\ again[i].action_type # ERROR_ENV
                /\ again[i].action_type = CallName(call.out[i])

\* The value that replaces the reference lex to name (the values of the maps
\* are single lexemes).
ValueOf(name, lex, vs, environ) ==
    IF name \in DOMAIN vs THEN vs[name][1]
    ELSE IF name \in DOMAIN environ THEN environ[name][1]
    ELSE lex

\* What stands for a lexeme after substitution, if only the names of upper
\* case letters, digits and underscores are references.
Substituted(lex, vs, environ) ==
    CASE lex = TPL_APP -> ValueOf("APP", lex, vs, environ)
      [] lex = TPL_B -> ValueOf("B", lex, vs, environ)
      [] OTHER -> lex

\* ... and if every ${name} is a reference.
SubstitutedAnyName(lex, vs, environ) ==
    IF lex = TPL_app THEN ValueOf("app", lex, vs, environ)
    ELSE Substituted(lex, vs, environ)

\* The calls of the open_app macro for the application x.
OpenAppCalls ==
    << <<"iphone_home", LP, RP>>,
       <<"swipe", LP, "direction", EQ, SQ, "down", SQ, RP>>,
       <<"sleep", LP, "ms", EQ, "120", RP>>,
       <<"type", LP, "content", EQ, DQ, "x", BS, "n", DQ, RP>>,
       <<"sleep", LP, "ms", EQ, "350", RP>> >>

\* C26 (as amended): render_template replaces every ${NAME} whose name is
\* made of upper case letters, digits and underscores by the value of the
\* explicit variable map, else of the environment, else leaves it verbatim;
\* every other text, ${app} included, stays as it is; a value is not expanded
\* again; and "open_app ${APP}" with APP=x compiles to the fixed macro.
C26_TemplateUpperCaseNames ==
    /\ call.op = "render_template" =>
         /\ Len(call.out) = Len(call.before)
         /\ \A i \in 1..Len(call.before) :
              call.out[i] = Substituted(call.before[i], call.arg.vars, call.arg.environ)
    /\ (/\ call.op = "script_to_action_calls"
        /\ call.before = <<"open_app", SP, TPL_APP>>
        /\ call.arg.vars = [n \in {"APP"} |-> <<"x">>]) =>
         (call.ret = "" /\ call.out = OpenAppCalls)

\* A reference to APP was rendered with APP in both the variable map and the
\* environment.
C26_Witness ==
    /\ call.op = "render_template"
    /\ \E i \in 1..Len(call.before) : call.before[i] = TPL_APP
    /\ "APP" \in DOMAIN call.arg.vars
    /\ "APP" \in DOMAIN call.arg.environ

\* C26 (as stated): render_template replaces every ${NAME}, whatever the
\* name, by the value of the variable map, else of the environment.
C26_TemplateEveryName ==
    call.op = "render_template" =>
        /\ Len(call.out) = Len(call.before)
        /\ \A i \in 1..Len(call.before) :
             call.out[i] = SubstitutedAnyName(call.before[i], call.arg.vars,
                                              call.arg.environ)


\* The texts of ExpandTexts whose includes form chains in which no script
\* path repeats and every script compiles (d and f include e; f includes e
\* on two branches).
ChainTexts ==
    {<<"include", SP, n>> : n \in {"d", "e", "f"}}
      \cup {<<"wait", SEMI, SP, "include", SP, "d">>}

RECURSIVE Inlined(_)
RECURSIVE InlinedList(_)

\* The actions of a script with every include replaced by the actions of the
\* included script, in order.
Inlined(text) == InlinedList(script_to_predictions(text, NoVars, NoVars).calls)

InlinedList(preds) ==
    IF preds = <<>> THEN <<>>
    ELSE (IF Head(preds).action_type = <<"run_script">>
          THEN Inlined(ScriptFiles[run_script_target(Head(preds).raw_action)[1]])
          ELSE <<Head(preds)>>) \o InlinedList(Tail(preds))

RECURSIVE NestingDepth(_)
RECURSIVE NestingList(_)

\* How deep the includes of a script nest: 0 without an include.
NestingDepth(text) == NestingList(script_to_predictions(text, NoVars, NoVars).calls)

NestingList(preds) ==
    IF preds = <<>> THEN 0
    ELSE LET h == IF Head(preds).action_type = <<"run_script">>
                  THEN 1 + NestingDepth(ScriptFiles[run_script_target(Head(preds).raw_action)[1]])
                  ELSE 0
             t == NestingList(Tail(preds))
         IN IF h > t THEN h ELSE t

\* C32: every call of the expansion returns or raises; a chain of nested
\* includes in which no script path repeats expands to the concatenation of
\* the included scripts' actions, in order, exactly when its nesting depth is
\* at most max_expand_depth, and fails with the depth-exceeded error (never
\* with the circular-include error, also for a script included on two
\* branches) otherwise.
C32_ChainExpandsWithinDepth ==
    /\ call.op = "expand_special_predictions" => call.ret \in {"", "ScriptParseError"}
    /\ (call.op = "expand_special_predictions" /\ call.before \in ChainTexts) =>
        IF NestingDepth(call.before) <= call.arg
        THEN call.ret = "" /\ call.out = Inlined(call.before)
        ELSE /\ call.ret = "ScriptParseError"
             /\ call.after.msg = DEPTH_EXCEEDED
             /\ call.out = <<>>

\* f, whose includes nest three deep and reach e on two branches, expanded
\* at depth 3 to the three actions of d (its own and e's) and e.
C32_Witness ==
    /\ call.op = "expand_special_predictions"
    /\ call.before = <<"include", SP, "f">>
    /\ call.arg = 3
    /\ call.ret = ""
    /\ Len(call.out) = 3
    /\ NestingDepth(call.before) = 3


\* C31: a live step whose run_script expansion fails executes none of its
\* actions (the ones before the run_script action included): the loop goes
\* from the decision straight back to the top of the loop, with status HANG,
\* reason run_script_error and paused set; the status is not ERROR.
C31_ExpansionFailureHangs ==
    [][(pc = "decide" /\ obs'.cut = "run_script") =>
          /\ status' = HANG
          /\ status' # ERROR
          /\ paused'
          /\ reason' = "run_script_error"
          /\ pc' = "top"
          /\ exec_results' = <<>>
          /\ obs'.hist = obs.hist
          /\ <<repeat_streak', last_sig'>> = <<repeat_streak, last_sig>>]_vars

\* The loop is back at the top after a failed expansion, hanged and paused.
C31_Witness ==
    /\ obs.cut = "run_script"
    /\ pc = "top"
    /\ status = HANG
    /\ paused
    /\ reason = "run_script_error"


\* The recording block of the live step at hand stores an entry if its post
\* capture returns.
RecordsEntry ==
    /\ pc = "record"
    /\ cfg.l0_enable
    /\ pre_fp # NoShot
    /\ exec_results # <<>>
    /\ AllOk(exec_results)
    /\ should_cache_actions(non_err)

\* C35: whenever the loop records a cache entry, the pre-digest it stores is
\* the digest of the screenshot on which the recorded actions were decided
\* and executed, also in a step whose cache replay failed verification.
C35_RecordedDigestIsOfDecidedShot ==
    RecordsEntry => pre_fp = fingerprint(shot)


\* The loop thread writes the status at the end of a live step or of a
\* verified replay step.
LoopWritesStepStatus ==
    /\ pc \in {"record", "verify"}
    /\ pc' = "top"

\* C36: the loop thread never writes status RUNNING while the paused flag is
\* set: after each status write by the loop at the end of a live step or of
\* a verified replay step, paused being set implies status is not RUNNING.
C36_NoRunningWhilePaused ==
    [][LoopWritesStepStatus => (paused' => status' # RUNNING)]_vars


\* C38: a POST /v1/agent/context/clear request that is rejected (invalid
\* mode, answered with 400) leaves paused, stopped, status, the pending
\* injection and the conversation log as they were before the request,
\* whatever pause and resume fields its body carries.
C38_RejectedClearChangesNothing ==
    (call.op = "context_clear" /\ call.ret = 400) => call.after = call.before


\* The task instruction given to run(), as a message.
InstructionMessage == [role |-> "user", content |-> "instruction"]

\* C34: in every live cycle, after any number of steps, the message list sent
\* to the decision source contains the user's task instruction (no request
\* clears or trims the conversation in these runs).
C34_InstructionAlwaysSent ==
    call.op = "invoke_model" =>
        \E i \in 1..Len(call.out) : call.out[i] = InstructionMessage


\* C39: every action type the script compiler's keyword commands and macros
\* emit (iphone_home, iphone_app_switcher, sleep, wait, swipe, scroll,
\* hotkey, type) is handled by execute_action: executing a compiled script
\* never yields the error unsupported action_type.
C39_CompiledActionsAreSupported ==
    call.op = "script_run" =>
        \A i \in 1..Len(call.out) : call.out[i].error # UNSUPPORTED


\* The loop thread executes an action, live or replayed from the cache.
LoopExecutes ==
    \/ Len(exec_results') = Len(exec_results) + 1
    \/ Len(l0_exec_results') = Len(l0_exec_results) + 1

\* C33: actions executed through /v1/agent/exec and /v1/agent/script/run
\* never run concurrently with an action executed by the worker loop: while
\* a supervisor request is executing its actions, under every interleaving
\* of pause, resume and exec requests with the loop thread, the loop
\* executes none.
C33_ExecNeverBesideTheLoop ==
    [][ExecRunning => ~ LoopExecutes]_vars


\* The loop thread is waiting in its pause gate.
AtGate == pc \in {"gate", "tick"}

\* The run has returned with a final status.
RunEnded == pc = "done" /\ status \in {END, CALL_USER, USER_STOPPED, ERROR}

\* C37 as stated: if every call returns and every pause (HANG included) is
\* eventually followed by a resume or a stop, every run eventually reaches
\* END, CALL_USER, USER_STOPPED or ERROR.
C37_EveryRunEnds == <>RunEnded

\* C37: if moreover each wait of the loop in its pause gate ends (the loop
\* finds paused unset at one of its polls, or stopped set), every run
\* eventually reaches END, CALL_USER, USER_STOPPED or ERROR: every iteration
\* that passes the gate counts a step and the step ceiling ends the run.
C37_EveryRunEndsIfGateWaitsEnd ==
    (AtGate ~> ~AtGate) => <>RunEnded

\* A run that was paused, resumed, and ended by the step ceiling.
C37_Witness ==
    /\ pc = "done"
    /\ status = ERROR
    /\ reason = "max_loop_count"
    /\ step = cfg.max_loop_count + 1
    /\ obs.stopAt = "none"

============================================================================
